---- MODULE Spec2Model ----
(***************************************************************************)
(* Analytical query engine of the Ethiopian medical data API: the CRUD     *)
(* operations of crud.py (SQL evaluated over the warehouse rows, then the  *)
(* Python shaping of the rows) and the endpoints of main.py that call      *)
(* them.                                                                   *)
(*                                                                         *)
(* Numbers.  The code computes with floats and SQL numerics; the model     *)
(* computes with exact integers in fixed point:                            *)
(*   - a value rounded to 3 decimals is held in thousandths ("milli"),     *)
(*   - a value rounded to 2 decimals is held in hundredths ("centi"),      *)
(*   - elapsed time is held in microseconds.                               *)
(* round(x, n) is round-half-even on the exact quotient.                   *)
(* Text is a sequence of one-character strings.  A value that may be SQL   *)
(* NULL or Python None is held as a set: NULL is the empty set and a       *)
(* present value v is Some(v) = {v}.                                       *)
(***************************************************************************)
EXTENDS Integers, Sequences, FiniteSets, TLC

VARIABLES
    messages,      \* marts.fct_messages: sequence of rows, message_id = index
    dim_channels,  \* marts.dim_channels: set of channel_name
    detections,    \* marts.fct_image_detections: sequence of rows
    outage,        \* 0, or k when the k-th executor call of an invocation fails
    call,          \* the operation invoked last, with its arguments
    executed,      \* the queries that invocation gave to execute_analytical_query
    locals,        \* local variables of the handler when it returned or raised
    result,        \* what the handler returned, or the exception it raised
    requests,      \* concurrent invocations: each one's position and connection
    pool           \* the engine's QueuePool: connections checked out

warehouse == <<messages, dim_channels, detections>>

vars == <<warehouse, outage, call, executed, locals, result, requests, pool>>

NULL == {}

Some(v) == {v}

Val(o) == CHOOSE v \in o : TRUE

(***************************************************************************)
(* Arithmetic helpers                                                      *)
(***************************************************************************)
Abs(x) == IF x < 0 THEN -x ELSE x

Max(a, b) == IF a >= b THEN a ELSE b

Min(a, b) == IF a <= b THEN a ELSE b

\* Python round(num/den, n) in units of 10^-n, num and den already scaled so
\* that num/den is in those units; den > 0.  Ties go to the even neighbour.
\* SQL ROUND(numeric, n) has the same arguments; ties go away from zero.
RoundHalfUp(num, den) ==
    LET a == Abs(num)
        q == a \div den
        r == a % den
        m == IF 2 * r >= den THEN q + 1 ELSE q
    IN  IF num < 0 THEN -m ELSE m

RoundHalfEven(num, den) ==
    LET a == Abs(num)
        q == a \div den
        r == a % den
        m == IF 2 * r > den \/ (2 * r = den /\ q % 2 = 1) THEN q + 1 ELSE q
    IN  IF num < 0 THEN -m ELSE m

RECURSIVE SumSeq(_)
SumSeq(s) == IF s = <<>> THEN 0 ELSE Head(s) + SumSeq(Tail(s))

RECURSIVE SeqOfSet(_)
\* some enumeration of a finite set (used only where the order is then fixed
\* by a sort or does not matter)
SeqOfSet(S) ==
    IF S = {} THEN <<>>
    ELSE LET x == CHOOSE y \in S : TRUE IN <<x>> \o SeqOfSet(S \ {x})

Range(s) == {s[i] : i \in DOMAIN s}

(***************************************************************************)
(* Metadata annotator: AnalyticalCRUD.get_query_metadata                   *)
(***************************************************************************)
SimpleTimeMs == 100
SimpleRows == 1000
ModerateTimeMs == 500
ModerateRows == 10000

\* execution_time is (time.time() - start_time) * 1000, here elapsed_us / 1000
QueryComplexityLoose(elapsed_us, row_count) ==
    IF elapsed_us < SimpleTimeMs * 1000 \/ row_count < SimpleRows THEN "simple"
    ELSE IF elapsed_us < ModerateTimeMs * 1000 /\ row_count < ModerateRows
         THEN "moderate"
    ELSE "complex"

QueryComplexity(elapsed_us, row_count) ==
    IF elapsed_us < SimpleTimeMs * 1000 /\ row_count < SimpleRows THEN "simple"
    ELSE IF elapsed_us < ModerateTimeMs * 1000 /\ row_count < ModerateRows
         THEN "moderate"
    ELSE "complex"

get_query_metadata(elapsed_us, row_count) ==
    [ execution_time_ms |-> RoundHalfEven(elapsed_us, 10),   \* centi-ms
      rows_processed    |-> row_count,
      cache_hit         |-> FALSE,
      query_complexity  |-> QueryComplexity(elapsed_us, row_count) ]

(***************************************************************************)
(* Text: Python str / SQL text as a sequence of one-character strings      *)
(***************************************************************************)
UpperCase == <<"A","B","C","D","E","F","G","H","I","J","K","L","M",
               "N","O","P","Q","R","S","T","U","V","W","X","Y","Z">>
LowerCase == <<"a","b","c","d","e","f","g","h","i","j","k","l","m",
               "n","o","p","q","r","s","t","u","v","w","x","y","z">>

LowerChar(c) ==
    IF \E i \in DOMAIN UpperCase : UpperCase[i] = c
    THEN LowerCase[CHOOSE i \in DOMAIN UpperCase : UpperCase[i] = c]
    ELSE c

\* str.lower() and SQL LOWER()
Lower(s) == [i \in DOMAIN s |-> LowerChar(s[i])]

IsSpace(c) == c \in {" ", "\t", "\n"}

\* str.strip(): leading and trailing whitespace removed
RECURSIVE LStrip(_)
LStrip(s) == IF s # <<>> /\ IsSpace(Head(s)) THEN LStrip(Tail(s)) ELSE s

RECURSIVE RStrip(_)
RStrip(s) ==
    IF s # <<>> /\ IsSpace(s[Len(s)]) THEN RStrip(SubSeq(s, 1, Len(s) - 1)) ELSE s

Strip(s) == RStrip(LStrip(s))

\* str.split() without argument: the maximal runs of non-whitespace
RECURSIVE SplitFrom(_, _, _)
SplitFrom(s, cur, acc) ==
    IF s = <<>> THEN (IF cur = <<>> THEN acc ELSE Append(acc, cur))
    ELSE IF IsSpace(Head(s))
         THEN SplitFrom(Tail(s), <<>>, IF cur = <<>> THEN acc ELSE Append(acc, cur))
    ELSE SplitFrom(Tail(s), Append(cur, Head(s)), acc)

Split(s) == SplitFrom(s, <<>>, <<>>)

\* Python "sub in s"
Contains(s, sub) ==
    \E i \in 0..(Len(s) - Len(sub)) : SubSeq(s, i + 1, i + Len(sub)) = sub

\* SQL "s LIKE p": % matches any run of characters, _ any one character
RECURSIVE Like(_, _)
Like(s, p) ==
    IF p = <<>> THEN s = <<>>
    ELSE IF Head(p) = "%"
         THEN \E k \in 0..Len(s) : Like(SubSeq(s, k + 1, Len(s)), Tail(p))
    ELSE /\ s # <<>>
         /\ (Head(p) = "_" \/ Head(p) = Head(s))
         /\ Like(Tail(s), Tail(p))

\* SQL LEFT(s, n)
Left(s, n) == SubSeq(s, 1, Min(n, Len(s)))

\* s[i] for i in the subsequence of indices that satisfy a test
RECURSIVE SelectIdx(_, _)
SelectIdx(s, keep) ==
    IF s = <<>> THEN <<>>
    ELSE (IF keep[Head(s)] THEN <<Head(s)>> ELSE <<>>) \o SelectIdx(Tail(s), keep)

RECURSIVE Perms(_)
Perms(S) ==
    IF S = {} THEN {<<>>}
    ELSE UNION {{<<x>> \o p : p \in Perms(S \ {x})} : x \in S}

(***************************************************************************)
(* Warehouse rows                                                          *)
(***************************************************************************)
\* a row of marts.fct_messages with the columns the queries read; the
\* message_id of a row is its position in the table
BaseRow ==
    [ channel                      |-> <<"@", "a">>,
      message_text                 |-> NULL,
      message_date                 |-> 0,
      has_media                    |-> FALSE,
      engagement_score             |-> 0,
      engagement_category          |-> "medium",
      is_pharmacy_content          |-> FALSE,
      is_medical_equipment_content |-> FALSE,
      is_healthcare_content        |-> FALSE,
      message_hour                 |-> 9,
      text_length                  |-> 0 ]

NormalizeChannelAlways(name) == <<"@">> \o name

\* channel names carry the leading marker
NormalizeChannel(name) ==
    IF name # <<>> /\ Head(name) = "@" THEN name ELSE <<"@">> \o name

(***************************************************************************)
(* Query executor: database.execute_analytical_query                       *)
(***************************************************************************)
\* what engine.connect() or connection.execute raises on connection loss or
\* an SQL error; the executor logs it and re-raises it
QueryFailure == "SQLAlchemyError"

\* An invocation r (its outcome and the queries it executes when the
\* warehouse answers) whose fail_at-th executor call fails instead: the
\* queries up to that one were submitted and the failure propagates.
WithExecutor(r, fail_at) ==
    IF fail_at \in 1..Len(r.executed)
    THEN [ raised |-> QueryFailure, executed |-> SubSeq(r.executed, 1, fail_at) ]
    ELSE r

(***************************************************************************)
(* Search: AnalyticalCRUD.search_messages                                  *)
(***************************************************************************)
LeftLen == 200

\* [term.strip().lower() for term in query.split() if len(term.strip()) > 2]
RECURSIVE TermsOf(_)
TermsOf(tokens) ==
    IF tokens = <<>> THEN <<>>
    ELSE (IF Len(Strip(Head(tokens))) > 2
          THEN <<Lower(Strip(Head(tokens)))>> ELSE <<>>) \o TermsOf(Tail(tokens))

\* the same with tokens of two characters kept
RECURSIVE TermsOfMinTwo(_)
TermsOfMinTwo(tokens) ==
    IF tokens = <<>> THEN <<>>
    ELSE (IF Len(Strip(Head(tokens))) >= 2
          THEN <<Lower(Strip(Head(tokens)))>> ELSE <<>>)
         \o TermsOfMinTwo(Tail(tokens))

search_termsMinTwo(query) == TermsOfMinTwo(Split(query))

search_terms(query) == TermsOf(Split(query))

\* LOWER(message_text) LIKE :term_i with the parameter f"%{term}%"
TermLike(row, term) ==
    /\ row.message_text # NULL
    /\ Like(Lower(Val(row.message_text)), <<"%">> \o term \o <<"%">>)

\* the sum of the CASE WHEN ... THEN 1 ELSE 0 END terms
MatchedCount(row, terms) ==
    Cardinality({i \in DOMAIN terms : TermLike(row, terms[i])})

\* the sentiment bucket of the filter
SentimentCategory(sentiment) ==
    IF sentiment = "positive" THEN "high"
    ELSE IF sentiment = "negative" THEN "low"
    ELSE "medium"

\* one condition of the query text: the fixed SQL, the index that the f-string
\* puts into the parameter name (-1: none) and the caller's value written
\* into the text itself (empty: the value is bound as a parameter)
Clause(sql, i) == [sql |-> sql, i |-> i, lit |-> <<>>]

ChannelClauseInlined(i, channel) ==
    [sql |-> "channel = ", i |-> i, lit |-> channel]

\* f"channel = :channel_{i}"
ChannelClause(i, channel) == Clause("channel = :channel_", i)

\* the where_conditions list as search_messages builds it: a sequence of
\* conditions joined by AND, each a sequence of clauses joined by OR
where_clauses(terms, f) ==
    << <<Clause("message_text IS NOT NULL", -1)>>,
       [i \in DOMAIN terms |-> Clause("LOWER(message_text) LIKE :term_", i - 1)] >>
    \o (IF f.channels # NULL /\ Val(f.channels) # <<>>
        THEN << [i \in DOMAIN Val(f.channels) |->
                    ChannelClause(i - 1, Val(f.channels)[i])] >>
        ELSE <<>>)
    \o (IF f.date_from # NULL
        THEN << <<Clause("message_date >= :date_from", -1)>> >> ELSE <<>>)
    \o (IF f.date_to # NULL
        THEN << <<Clause("message_date <= :date_to", -1)>> >> ELSE <<>>)
    \o (IF f.has_media # NULL
        THEN << <<Clause("has_media = :has_media", -1)>> >> ELSE <<>>)
    \o (IF f.sentiment # NULL
        THEN << <<Clause(IF Val(f.sentiment) = "positive"
                         THEN "engagement_category = 'high'"
                         ELSE IF Val(f.sentiment) = "negative"
                         THEN "engagement_category = 'low'"
                         ELSE "engagement_category = 'medium'", -1)>> >>
        ELSE <<>>)

\* the text of the search query and of the count query: the relevance
\* expression has one CASE per term and divides by their number; threshold,
\* limit and offset are the parameters :min_relevance, :limit, :offset
query_text(select, terms, f) ==
    [ select    |-> select,
      cases     |-> [i \in DOMAIN terms |->
                        Clause("CASE WHEN LOWER(message_text) LIKE :term_", i - 1)],
      divisor   |-> Len(terms),
      where     |-> where_clauses(terms, f),
      threshold |-> "relevance_score >= :min_relevance" ]

where_conditionsTruthyMedia(row, terms, f) ==
    /\ row.message_text # NULL
    /\ \E i \in DOMAIN terms : TermLike(row, terms[i])
    /\ (f.channels # NULL /\ Val(f.channels) # <<>>) =>
           \E i \in DOMAIN Val(f.channels) :
               row.channel = NormalizeChannel(Val(f.channels)[i])
    /\ f.date_from # NULL => row.message_date >= Val(f.date_from)
    /\ f.date_to # NULL => row.message_date <= Val(f.date_to)
    /\ (f.has_media # NULL /\ Val(f.has_media)) => row.has_media = Val(f.has_media)
    /\ f.sentiment # NULL =>
           row.engagement_category = SentimentCategory(Val(f.sentiment))

\* WHERE {' AND '.join(where_conditions)}
where_conditions(row, terms, f) ==
    /\ row.message_text # NULL
    /\ \E i \in DOMAIN terms : TermLike(row, terms[i])
    /\ (f.channels # NULL /\ Val(f.channels) # <<>>) =>
           \E i \in DOMAIN Val(f.channels) :
               row.channel = NormalizeChannel(Val(f.channels)[i])
    /\ f.date_from # NULL => row.message_date >= Val(f.date_from)
    /\ f.date_to # NULL => row.message_date <= Val(f.date_to)
    /\ f.has_media # NULL => row.has_media = Val(f.has_media)
    /\ f.sentiment # NULL =>
           row.engagement_category = SentimentCategory(Val(f.sentiment))

\* min_relevance: float = Query(ge=0, le=1), carried in ten-thousandths so
\* that a threshold can lie between two scores reported to 3 decimals
RelevanceScale == 10000

\* WHERE relevance_score >= :min_relevance, relevance_score = matched / k
PassesRelevance(row, terms, min_relevance) ==
    MatchedCount(row, terms) * RelevanceScale >= min_relevance * Len(terms)

\* the message_ids of the CTE rows the outer SELECT keeps
SearchResultIds(msgs, terms, f, min_relevance) ==
    { i \in DOMAIN msgs : /\ where_conditions(msgs[i], terms, f)
                          /\ PassesRelevance(msgs[i], terms, min_relevance) }

OrderedBeforeOldestFirst(msgs, terms, a, b) ==
    LET ma == MatchedCount(msgs[a], terms)
        mb == MatchedCount(msgs[b], terms)
    IN  \/ ma > mb
        \/ ma = mb /\ msgs[a].message_date < msgs[b].message_date

\* ORDER BY relevance_score DESC, message_date DESC: a strictly precedes b
OrderedBefore(msgs, terms, a, b) ==
    LET ma == MatchedCount(msgs[a], terms)
        mb == MatchedCount(msgs[b], terms)
    IN  \/ ma > mb
        \/ ma = mb /\ msgs[a].message_date > msgs[b].message_date

\* every order the warehouse may return the kept rows in (rows equal on both
\* sort keys come in any order)
SearchOrders(msgs, terms, f, min_relevance) ==
    { p \in Perms(SearchResultIds(msgs, terms, f, min_relevance)) :
        \A i, j \in DOMAIN p : i < j => ~OrderedBefore(msgs, terms, p[j], p[i]) }

SearchRowFullText(msgs, terms, id) ==
    [ message_id      |-> id,
      channel         |-> msgs[id].channel,
      message_text    |-> msgs[id].message_text,
      message_date    |-> msgs[id].message_date,
      sentiment_label |-> Some(msgs[id].engagement_category),
      has_media       |-> Some(msgs[id].has_media),
      relevance_score |-> [num |-> MatchedCount(msgs[id], terms), den |-> Len(terms)] ]

\* one row of the search query's result
SearchRow(msgs, terms, id) ==
    [ message_id      |-> id,
      channel         |-> msgs[id].channel,
      message_text    |-> IF msgs[id].message_text = NULL THEN NULL
                          ELSE Some(Left(Val(msgs[id].message_text), LeftLen)),
      message_date    |-> msgs[id].message_date,
      sentiment_label |-> Some(msgs[id].engagement_category),
      has_media       |-> Some(msgs[id].has_media),
      relevance_score |-> [num |-> MatchedCount(msgs[id], terms), den |-> Len(terms)] ]

\* LIMIT :limit OFFSET :offset over the ordered rows
search_query(msgs, ord, terms, limit, offset) ==
    LET page == SubSeq(ord, offset + 1, Min(offset + limit, Len(ord)))
    IN  [i \in DOMAIN page |-> SearchRow(msgs, terms, page[i])]

count_queryNoThreshold(msgs, terms, f, min_relevance) ==
    Cardinality(SearchResultIds(msgs, terms, f, 0))

\* SELECT COUNT(*) as total_count
count_query(msgs, terms, f, min_relevance) ==
    Cardinality(SearchResultIds(msgs, terms, f, min_relevance))

\* matched_terms: the terms found in the lower-cased returned text
RECURSIVE matched_terms(_, _)
matched_terms(text_lower, terms) ==
    IF terms = <<>> THEN <<>>
    ELSE (IF Contains(text_lower, Head(terms)) THEN <<Head(terms)>> ELSE <<>>)
         \o matched_terms(text_lower, Tail(terms))

\* round(row['relevance_score'], 3), in thousandths
RelevanceTruncated(score) == (score.num * 1000) \div score.den

RelevanceRounded(score) == RoundHalfEven(score.num * 1000, score.den)

MessageMatch(row, terms) ==
    [ message_id      |-> row.message_id,
      channel         |-> row.channel,
      message_text    |-> IF row.message_text = NULL THEN <<>>
                          ELSE Val(row.message_text),
      message_date    |-> row.message_date,
      sentiment       |-> row.sentiment_label,
      has_media       |-> IF row.has_media = NULL THEN FALSE ELSE Val(row.has_media),
      relevance_score |-> RelevanceRounded(row.relevance_score),
      matched_terms   |-> matched_terms(
                              IF row.message_text = NULL THEN <<>>
                              ELSE Lower(Val(row.message_text)), terms) ]

\* the whole operation; ord is the order the warehouse returns the rows in
search_messages(msgs, ord, query, f, min_relevance, limit, offset, elapsed_us) ==
    LET terms == search_terms(query)
    IN  IF terms = <<>>
        THEN [ raised      |-> "none",
               matches     |-> <<>>,
               total_count |-> 0,
               metadata    |-> get_query_metadata(elapsed_us, 0),
               executed    |-> <<>> ]
        ELSE LET results == search_query(msgs, ord, terms, limit, offset)
                 total   == count_query(msgs, terms, f, min_relevance)
             IN  [ raised      |-> "none",
                   matches     |-> [i \in DOMAIN results |->
                                        MessageMatch(results[i], terms)],
                   total_count |-> total,
                   metadata    |-> get_query_metadata(elapsed_us, Len(results)),
                   executed    |-> << [query |-> "search_query", k |-> Len(terms),
                                       limit |-> limit, offset |-> offset,
                                       text  |-> query_text("search", terms, f)],
                                      [query |-> "count_query", k |-> Len(terms),
                                       limit |-> limit, offset |-> offset,
                                       text  |-> query_text("count", terms, f)] >> ]

(***************************************************************************)
(* Search endpoint and pagination: main.search_messages                    *)
(***************************************************************************)
SearchOffsetFromPage(page, page_size) == page * page_size

SearchOffset(page, page_size) == (page - 1) * page_size

TotalPagesFloor(total_count, page_size) == total_count \div page_size

TotalPages(total_count, page_size) == (total_count + page_size - 1) \div page_size

PaginationInfo(page, page_size, total_count) ==
    [ page         |-> page,
      page_size    |-> page_size,
      total_items  |-> total_count,
      total_pages  |-> TotalPages(total_count, page_size),
      has_next     |-> page < TotalPages(total_count, page_size),
      has_previous |-> page > 1 ]

SearchEndpoint(query, f, min_relevance, page, page_size, elapsed_us) ==
    LET terms  == search_terms(query)
        offset == SearchOffset(page, page_size)
    IN  /\ call.op = "none"
        /\ \E ord \in SearchOrders(messages, terms, f, min_relevance) :
          LET r == WithExecutor(search_messages(messages, ord, query, f,
                                                min_relevance, page_size, offset,
                                                elapsed_us), outage)
          IN  /\ call' = [ op |-> "search_messages", query |-> query, filters |-> f,
                           min_relevance |-> min_relevance,
                           page |-> page, page_size |-> page_size ]
              /\ executed' = r.executed
              /\ locals' = IF r.raised # "none"
                           THEN [ offset |-> offset, raised |-> r.raised ]
                           ELSE [ offset |-> offset, metadata |-> r.metadata ]
              /\ result' = IF r.raised # "none"
                           THEN [ kind |-> "HTTPException", status_code |-> 500 ]
                           ELSE [ kind |-> "return",
                                  body |-> [ query         |-> query,
                                             matches       |-> r.matches,
                                             total_matches |-> r.total_count,
                                             pagination    |->
                                                 PaginationInfo(page, page_size,
                                                                r.total_count) ] ]
              /\ UNCHANGED <<warehouse, outage, requests, pool>>

(***************************************************************************)
(* Top products: AnalyticalCRUD.get_top_products                           *)
(***************************************************************************)
Digits == {"0", "1", "2", "3", "4", "5", "6", "7", "8", "9"}

IsAlnum(c) == c \in Range(UpperCase) \cup Range(LowerCase) \cup Digits

\* regexp_replace(message_text, '[^a-zA-Z0-9\s]', ' ', 'g')
ReplaceNonWord(s) ==
    [i \in DOMAIN s |-> IF IsAlnum(s[i]) \/ IsSpace(s[i]) THEN s[i] ELSE " "]

\* string_to_array(s, ' '): the pieces between single spaces, empty ones kept
RECURSIVE SplitOnSpace(_, _)
SplitOnSpace(s, cur) ==
    IF s = <<>> THEN <<cur>>
    ELSE IF Head(s) = " " THEN <<cur>> \o SplitOnSpace(Tail(s), <<>>)
    ELSE SplitOnSpace(Tail(s), Append(cur, Head(s)))

\* SQL TRIM(s): leading and trailing spaces removed (only spaces)
RECURSIVE TrimSpaces(_)
TrimSpaces(s) ==
    IF s # <<>> /\ Head(s) = " " THEN TrimSpaces(Tail(s))
    ELSE IF s # <<>> /\ s[Len(s)] = " " THEN TrimSpaces(SubSeq(s, 1, Len(s) - 1))
    ELSE s

\* LOWER(TRIM(unnest(string_to_array(regexp_replace(...), ' '))))
PotentialProducts(text) ==
    LET pieces == SplitOnSpace(ReplaceNonWord(text), <<>>)
    IN  [i \in DOMAIN pieces |-> Lower(TrimSpaces(pieces[i]))]

MedicalVocabulary ==
    {
      <<"p","a","r","a","c","e","t","a","m","o","l">>,
      <<"i","b","u","p","r","o","f","e","n">>,
      <<"a","s","p","i","r","i","n">>,
      <<"a","m","o","x","i","c","i","l","l","i","n">>,
      <<"m","e","t","f","o","r","m","i","n">>,
      <<"i","n","s","u","l","i","n">>,
      <<"m","o","r","p","h","i","n","e">>,
      <<"c","o","d","e","i","n","e">>,
      <<"t","r","a","m","a","d","o","l">>,
      <<"d","i","c","l","o","f","e","n","a","c">>,
      <<"p","r","e","d","n","i","s","o","l","o","n","e">>,
      <<"d","e","x","a","m","e","t","h","a","s","o","n","e">>,
      <<"o","m","e","p","r","a","z","o","l","e">>,
      <<"r","a","n","i","t","i","d","i","n","e">>,
      <<"s","i","m","v","a","s","t","a","t","i","n">>,
      <<"a","t","o","r","v","a","s","t","a","t","i","n">>,
      <<"l","i","s","i","n","o","p","r","i","l">>,
      <<"a","m","l","o","d","i","p","i","n","e">>,
      <<"m","e","t","r","o","n","i","d","a","z","o","l","e">>,
      <<"c","i","p","r","o","f","l","o","x","a","c","i","n">>,
      <<"a","z","i","t","h","r","o","m","y","c","i","n">>,
      <<"d","o","x","y","c","y","c","l","i","n","e">>,
      <<"h","y","d","r","o","c","h","l","o","r","o","t","h","i","a","z","i","d","e">>,
      <<"f","u","r","o","s","e","m","i","d","e">>,
      <<"w","a","r","f","a","r","i","n">>,
      <<"h","e","p","a","r","i","n">>,
      <<"s","a","l","b","u","t","a","m","o","l">>,
      <<"p","r","e","d","n","i","s","o","l","o","n","e">>,
      <<"h","y","d","r","o","c","o","r","t","i","s","o","n","e">>,
      <<"b","e","t","a","m","e","t","h","a","s","o","n","e">>
    }

MinTextLength == 10
MinProductLength == 4
MinMentions == 2
SentimentScale == 1000

\* the day the request is handled on (datetime.now()), in days
Today == 10

IsMedicalContent(row) ==
    \/ row.is_pharmacy_content
    \/ row.is_medical_equipment_content
    \/ row.is_healthcare_content

\* the WHERE clause of the product_mentions CTE
ProductRowQualifies(row, cutoff_date) ==
    /\ row.message_date >= cutoff_date
    /\ row.message_text # NULL
    /\ Len(Val(row.message_text)) > MinTextLength
    /\ IsMedicalContent(row)

\* the product_mentions CTE: one row for every piece of every qualifying text
product_mentions(msgs, cutoff_date) ==
    UNION { { [ message_id        |-> id,
                piece             |-> j,
                potential_product |-> PotentialProducts(Val(msgs[id].message_text))[j],
                channel           |-> msgs[id].channel,
                message_date      |-> msgs[id].message_date,
                sentiment_score   |-> msgs[id].engagement_score,
                price_mentions    |-> 1 ]
              : j \in DOMAIN PotentialProducts(Val(msgs[id].message_text)) }
            : id \in { i \in DOMAIN msgs : ProductRowQualifies(msgs[i], cutoff_date) } }

\* the medical_products CTE: the rows of product_mentions whose token is in
\* the vocabulary (one row for every occurrence)
medical_products(pm) ==
    { r \in pm : /\ r.potential_product \in MedicalVocabulary
                 /\ Len(r.potential_product) >= MinProductLength }

\* product_mentions pm INNER JOIN medical_products mp
\*     ON pm.potential_product = mp.potential_product
Joined(pm, mp) ==
    { pair \in pm \X mp : pair[1].potential_product = pair[2].potential_product }

SumOfSeq(rows, field) ==
    SumSeq([i \in DOMAIN rows |-> rows[i][1][field]])

\* the product_stats CTE: GROUP BY pm.potential_product over the join
product_stats(pm) ==
    LET joined == Joined(pm, medical_products(pm))
        names  == { pair[1].potential_product : pair \in joined }
        group(n) == { pair \in joined : pair[1].potential_product = n }
    IN  { [ product_name   |-> n,
            mention_count  |-> Cardinality(group(n)),
            channels       |-> { pair[1].channel : pair \in group(n) },
            avg_sentiment  |-> [ num |-> SumOfSeq(SeqOfSet(group(n)), "sentiment_score"),
                                 den |-> Cardinality(group(n)) ],
            price_mentions |-> SumOfSeq(SeqOfSet(group(n)), "price_mentions"),
            last_mentioned |-> CHOOSE d \in { pair[1].message_date : pair \in group(n) } :
                                   \A pair \in group(n) : pair[1].message_date <= d ]
          : n \in names }

\* WHERE mention_count >= 2
KeepsSingles(stat) == stat.mention_count >= 1

KeptProduct(stat) == stat.mention_count >= MinMentions

\* ORDER BY mention_count DESC, last_mentioned DESC: a strictly precedes b
ProductBefore(a, b) ==
    \/ a.mention_count > b.mention_count
    \/ a.mention_count = b.mention_count /\ a.last_mentioned > b.last_mentioned

\* every order the warehouse may return the kept products in
ProductOrders(msgs, cutoff_date) ==
    { p \in Perms({ st \in product_stats(product_mentions(msgs, cutoff_date)) :
                        KeptProduct(st) }) :
        \A i, j \in DOMAIN p : i < j => ~ProductBefore(p[j], p[i]) }

\* LIMIT :limit
top_products_query(ord, limit) == SubSeq(ord, 1, Min(limit, Len(ord)))

UpperChar(c) ==
    IF \E i \in DOMAIN LowerCase : LowerCase[i] = c
    THEN UpperCase[CHOOSE i \in DOMAIN LowerCase : LowerCase[i] = c]
    ELSE c

\* str.title(): the first letter of every run of letters upper-cased, the
\* other letters lower-cased
Title(s) ==
    [ i \in DOMAIN s |->
        IF i = 1 \/ ~(s[i - 1] \in Range(UpperCase) \cup Range(LowerCase))
        THEN UpperChar(s[i]) ELSE LowerChar(s[i]) ]

ProductSentimentUnclamped(avg) ==
    IF avg.num = 0 THEN NULL
    ELSE Some(RoundHalfEven(avg.num * 1000, avg.den * SentimentScale))

\* min(max(round(float(avg) / 1000, 3), -1), 1) if avg else None, in thousandths
ProductSentiment(avg) ==
    IF avg.num = 0 THEN NULL
    ELSE Some(Min(Max(RoundHalfEven(avg.num * 1000, avg.den * SentimentScale),
                      -1000), 1000))

ProductMention(row) ==
    [ product_name   |-> Title(row.product_name),
      mention_count  |-> row.mention_count,
      channels       |-> row.channels,
      avg_sentiment  |-> ProductSentiment(row.avg_sentiment),
      price_mentions |-> row.price_mentions,
      last_mentioned |-> row.last_mentioned ]

\* the whole operation; ord is the order the warehouse returns the rows in
get_top_products(ord, limit, days_back, elapsed_us) ==
    LET results == top_products_query(ord, limit)
    IN  [ raised   |-> "none",
          products |-> [i \in DOMAIN results |-> ProductMention(results[i])],
          metadata |-> get_query_metadata(elapsed_us, Len(results)),
          executed |-> << [query |-> "top_products", limit |-> limit,
                           cutoff_date |-> Today - days_back] >> ]

\* main.get_top_products
TopProductsEndpoint(limit, days_back, elapsed_us) ==
    /\ call.op = "none"
    /\ \E ord \in ProductOrders(messages, Today - days_back) :
         LET r == WithExecutor(get_top_products(ord, limit, days_back, elapsed_us),
                               outage)
         IN  /\ call' = [ op |-> "get_top_products", limit |-> limit,
                          days_back |-> days_back ]
             /\ executed' = r.executed
             /\ locals' = IF r.raised # "none" THEN [ raised |-> r.raised ]
                          ELSE [ metadata |-> r.metadata ]
             /\ result' = IF r.raised # "none"
                          THEN [ kind |-> "HTTPException", status_code |-> 500 ]
                          ELSE [ kind |-> "return",
                                 body |-> [ products       |-> r.products,
                                            total_products |-> Len(r.products),
                                            days_back      |-> days_back ] ]
             /\ UNCHANGED <<warehouse, outage, requests, pool>>

(***************************************************************************)
(* Channel activity: AnalyticalCRUD.get_channel_activity                   *)
(***************************************************************************)
TopHoursLimit == 5

\* SQL SUM over a group: NULL over no rows
SqlSum(values) == IF values = <<>> THEN NULL ELSE Some(SumSeq(values))

\* SQL AVG over a group, as an exact fraction: NULL over no rows
SqlAvg(values) ==
    IF values = <<>> THEN NULL
    ELSE Some([num |-> SumSeq(values), den |-> Len(values)])

\* the rows WHERE channel = :channel_name AND message_date >= :cutoff_date,
\* in table order
WindowRows(msgs, channel_name, cutoff_date) ==
    SelectIdx([i \in DOMAIN msgs |-> i],
              [i \in DOMAIN msgs |-> /\ msgs[i].channel = channel_name
                                     /\ msgs[i].message_date >= cutoff_date])

Column(msgs, ids, field) == [k \in DOMAIN ids |-> msgs[ids[k]][field]]

Flag(b) == IF b THEN 1 ELSE 0

\* channel_info_query: the dimension row LEFT JOINed with all its messages
channel_info_query(msgs, dims, channel_name) ==
    IF channel_name \in dims
    THEN << [ channel_name   |-> channel_name,
              total_messages |->
                  Cardinality({i \in DOMAIN msgs : msgs[i].channel = channel_name}) ] >>
    ELSE <<>>

RECURSIVE SortedDates(_)
SortedDates(S) ==
    IF S = {} THEN <<>>
    ELSE LET d == CHOOSE x \in S : \A y \in S : x <= y
         IN  <<d>> \o SortedDates(S \ {d})

\* MODE() WITHIN GROUP (ORDER BY message_hour): the most frequent hour, the
\* smallest of them when several are
ModeHour(hours) ==
    LET count(h) == Cardinality({k \in DOMAIN hours : hours[k] = h})
    IN  CHOOSE h \in Range(hours) :
            \A g \in Range(hours) :
                count(h) > count(g) \/ (count(h) = count(g) /\ h <= g)

\* daily_activity_query: GROUP BY DATE(message_date) ORDER BY activity_date
daily_activity_query(msgs, channel_name, cutoff_date) ==
    LET ids   == WindowRows(msgs, channel_name, cutoff_date)
        dates == SortedDates({msgs[ids[k]].message_date : k \in DOMAIN ids})
        of(d) == SelectIdx(ids, [i \in DOMAIN msgs |-> msgs[i].message_date = d])
    IN  [ n \in DOMAIN dates |->
            [ activity_date |-> dates[n],
              message_count |-> Len(of(dates[n])),
              media_count   |-> SqlSum([k \in DOMAIN of(dates[n]) |->
                                           Flag(msgs[of(dates[n])[k]].has_media)]),
              avg_sentiment |-> SqlAvg(Column(msgs, of(dates[n]), "engagement_score")),
              peak_hour     |-> ModeHour(Column(msgs, of(dates[n]), "message_hour")) ] ]

\* round(avg, 3) if avg else None, in thousandths
RoundedOrNone(avg) ==
    IF avg = NULL \/ Val(avg).num = 0 THEN NULL
    ELSE Some(RoundHalfEven(Val(avg).num * 1000, Val(avg).den))

\* the bounds the DailyActivity schema declares; a row outside them raises
\* pydantic's ValidationError, a ValueError
DailyActivityValid(row) ==
    /\ row.message_count >= 0
    /\ row.media_count # NULL /\ Val(row.media_count) >= 0
    /\ row.peak_hour >= 0 /\ row.peak_hour <= 23

DailyActivity(row) ==
    [ date          |-> row.activity_date,
      message_count |-> row.message_count,
      media_count   |-> Val(row.media_count),
      avg_sentiment |-> RoundedOrNone(row.avg_sentiment),
      peak_hour     |-> row.peak_hour ]

\* summary_query: aggregates without GROUP BY, so exactly one row
summary_query(msgs, channel_name, cutoff_date) ==
    LET ids == WindowRows(msgs, channel_name, cutoff_date)
    IN  << [ total_messages     |-> Len(ids),
             total_media        |-> SqlSum([k \in DOMAIN ids |->
                                               Flag(msgs[ids[k]].has_media)]),
             avg_message_length |-> SqlAvg(Column(msgs, ids, "text_length")),
             avg_sentiment      |-> SqlAvg(Column(msgs, ids, "engagement_score")),
             medical_messages   |-> SqlSum([k \in DOMAIN ids |->
                                               Flag(IsMedicalContent(msgs[ids[k]]))]),
             price_messages     |-> SqlSum([k \in DOMAIN ids |->
                                               Flag(msgs[ids[k]].is_pharmacy_content)]),
             active_days        |->
                 Cardinality({msgs[ids[k]].message_date : k \in DOMAIN ids}) ] >>

\* the summary_stats dict; dividing None raises TypeError.  Percentages and
\* averages in hundredths.
summary_stats(row) ==
    IF row.total_media = NULL
    THEN [ raised |-> "TypeError" ]
    ELSE [ raised |-> "none",
           value  |->
             [ total_messages     |-> row.total_messages,
               total_media        |-> Val(row.total_media),
               media_percentage   |->
                   RoundHalfEven(Val(row.total_media) * 100 * 100,
                                 Max(row.total_messages, 1)),
               avg_message_length |->
                   IF row.avg_message_length = NULL
                      \/ Val(row.avg_message_length).num = 0
                   THEN 0
                   ELSE RoundHalfEven(Val(row.avg_message_length).num * 100,
                                      Val(row.avg_message_length).den),
               avg_sentiment      |->
                   IF RoundedOrNone(row.avg_sentiment) = NULL THEN 0
                   ELSE Val(RoundedOrNone(row.avg_sentiment)),
               medical_messages   |-> row.medical_messages,
               price_messages     |-> row.price_messages,
               active_days        |-> row.active_days,
               avg_daily_posts    |->
                   RoundHalfEven(row.total_messages * 100,
                                 Max(row.active_days, 1)) ] ]

\* hours_query: hours by number of posts, most first (equal counts in any
\* order), at most 5
HourOrders(msgs, channel_name, cutoff_date) ==
    LET ids   == WindowRows(msgs, channel_name, cutoff_date)
        hours == Column(msgs, ids, "message_hour")
        count(h) == Cardinality({k \in DOMAIN hours : hours[k] = h})
    IN  { p \in Perms(Range(hours)) :
            \A i, j \in DOMAIN p : i < j => count(p[i]) >= count(p[j]) }

hours_query(ord) == SubSeq(ord, 1, Min(TopHoursLimit, Len(ord)))

InfoQuery == << [query |-> "channel_info_query"] >>

\* the whole operation: its return value or the exception it raises, and the
\* queries it executed until then
get_channel_activity(msgs, dims, hour_ord, name, days_back, elapsed_us) ==
    LET channel_name == NormalizeChannel(name)
        cutoff_date  == Today - days_back
        channel_results == channel_info_query(msgs, dims, channel_name)
        daily_results   == daily_activity_query(msgs, channel_name, cutoff_date)
        summary_results == summary_query(msgs, channel_name, cutoff_date)
        stats           == summary_stats(summary_results[1])
    IN  IF channel_results = <<>>
        THEN [ raised |-> "ValueError", executed |-> InfoQuery ]
        ELSE IF \E n \in DOMAIN daily_results : ~DailyActivityValid(daily_results[n])
        THEN [ raised   |-> "ValueError",
               executed |-> InfoQuery \o << [query |-> "daily_activity_query"] >> ]
        ELSE IF stats.raised # "none"
        THEN [ raised   |-> stats.raised,
               executed |-> InfoQuery \o << [query |-> "daily_activity_query"],
                                            [query |-> "summary_query"] >> ]
        ELSE [ raised   |-> "none",
               executed |-> InfoQuery \o << [query |-> "daily_activity_query"],
                                            [query |-> "summary_query"],
                                            [query |-> "hours_query"] >>,
               channel_info      |-> channel_results[1],
               daily_activities  |-> [n \in DOMAIN daily_results |->
                                         DailyActivity(daily_results[n])],
               summary_stats     |-> stats.value,
               top_posting_hours |-> hours_query(hour_ord),
               metadata |-> get_query_metadata(elapsed_us, Len(daily_results)) ]

\* main.get_channel_activity: ValueError becomes 404, any other exception 500
ChannelActivityEndpoint(name, days_back, elapsed_us) ==
    /\ call.op = "none"
    /\ \E hour_ord \in HourOrders(messages, NormalizeChannel(name), Today - days_back) :
         LET r == WithExecutor(get_channel_activity(messages, dim_channels, hour_ord,
                                                    name, days_back, elapsed_us),
                               outage)
         IN  /\ call' = [ op |-> "get_channel_activity", channel_name |-> name,
                          days_back |-> days_back ]
             /\ executed' = r.executed
             /\ locals' = [ raised |-> r.raised ]
             /\ result' =
                  IF r.raised = "none"
                  THEN [ kind |-> "return",
                         body |-> [ channel_info      |-> r.channel_info,
                                    daily_activity    |-> r.daily_activities,
                                    summary_stats     |-> r.summary_stats,
                                    top_posting_hours |-> r.top_posting_hours ] ]
                  ELSE [ kind |-> "HTTPException",
                         status_code |-> IF r.raised = "ValueError" THEN 404 ELSE 500 ]
             /\ UNCHANGED <<warehouse, outage, requests, pool>>

(***************************************************************************)
(* Daily trends: AnalyticalCRUD.get_daily_trends and main.get_daily_trends *)
(***************************************************************************)
metric_calculations == {"message_count", "sentiment", "media_ratio", "medical_content"}

\* the selected aggregate over the rows of one day, as an exact fraction
\* (NULL when AVG has no value)
MetricValue(metric, msgs, ids) ==
    IF metric = "message_count" THEN Some([num |-> Len(ids), den |-> 1])
    ELSE IF metric = "sentiment" THEN SqlAvg(Column(msgs, ids, "engagement_score"))
    ELSE IF metric = "media_ratio"
    THEN Some([ num |-> SumSeq([k \in DOMAIN ids |-> Flag(msgs[ids[k]].has_media)]),
                den |-> Len(ids) ])
    ELSE Some([ num |-> SumSeq([k \in DOMAIN ids |->
                                   Flag(IsMedicalContent(msgs[ids[k]]))]),
                den |-> Len(ids) ])

\* WHERE message_date >= :cutoff_date [AND channel = :channel]
\* GROUP BY DATE(message_date) ORDER BY trend_date
trends_query(msgs, metric, cutoff_date, channel) ==
    LET keep  == [ i \in DOMAIN msgs |->
                     /\ msgs[i].message_date >= cutoff_date
                     /\ (channel # NULL /\ Val(channel) # <<>>)
                            => msgs[i].channel = NormalizeChannel(Val(channel)) ]
        ids   == SelectIdx([i \in DOMAIN msgs |-> i], keep)
        dates == SortedDates({msgs[ids[k]].message_date : k \in DOMAIN ids})
        of(d) == SelectIdx(ids, [i \in DOMAIN msgs |-> msgs[i].message_date = d])
    IN  [ n \in DOMAIN dates |->
            [ trend_date   |-> dates[n],
              metric_value |-> MetricValue(metric, msgs, of(dates[n])) ] ]

\* round(row['metric_value'], 3) if row['metric_value'] else 0, in thousandths
TrendValue(metric_value) ==
    IF metric_value = NULL \/ Val(metric_value).num = 0 THEN 0
    ELSE RoundHalfEven(Val(metric_value).num * 1000, Val(metric_value).den)

TrendDataPoint(metric, row) ==
    [ date  |-> row.trend_date,
      value |-> TrendValue(row.metric_value),
      label |-> <<metric, row.trend_date>> ]

\* the whole CRUD operation
get_daily_trends(msgs, metric, days_back, channel, elapsed_us) ==
    IF metric \notin metric_calculations
    THEN [ raised |-> "ValueError", executed |-> <<>> ]
    ELSE LET results == trends_query(msgs, metric, Today - days_back, channel)
         IN  [ raised   |-> "none",
               executed |-> << [query |-> "trends_query", metric |-> metric] >>,
               trends   |-> [n \in DOMAIN results |-> TrendDataPoint(metric, results[n])],
               metadata |-> get_query_metadata(elapsed_us, Len(results)) ]

\* trends[:len(trends)//2] and trends[len(trends)//2:]
FirstHalfCeil(values) == SubSeq(values, 1, (Len(values) + 1) \div 2)

FirstHalf(values) == SubSeq(values, 1, Len(values) \div 2)

SecondHalf(values) == SubSeq(values, Len(values) \div 2 + 1, Len(values))

\* avg_second > avg_first * 1.05, the averages being sum / len
IsIncreasing(first, second) ==
    SumSeq(second) * Len(first) * 100 > SumSeq(first) * 105 * Len(second)

\* avg_second < avg_first * 0.95
IsDecreasing(first, second) ==
    SumSeq(second) * Len(first) * 100 < SumSeq(first) * 95 * Len(second)

TrendDirection(values) ==
    IF Len(values) >= 2
    THEN IF IsIncreasing(FirstHalf(values), SecondHalf(values)) THEN "increasing"
         ELSE IF IsDecreasing(FirstHalf(values), SecondHalf(values)) THEN "decreasing"
         ELSE "stable"
    ELSE "insufficient_data"

\* ((avg_second - avg_first) / avg_first) * 100 as an exact fraction; the
\* division raises ZeroDivisionError when avg_first is 0
GrowthOverSecond(first, second) ==
    [ num |-> (SumSeq(second) * Len(first) - SumSeq(first) * Len(second)) * 100,
      den |-> SumSeq(second) * Len(first) ]

Growth(first, second) ==
    [ num |-> (SumSeq(second) * Len(first) - SumSeq(first) * Len(second)) * 100,
      den |-> SumSeq(first) * Len(second) ]

\* the growth_rate local: a fraction, or the exception of the division
growth_rate(values) ==
    LET direction == TrendDirection(values)
        g == Growth(FirstHalf(values), SecondHalf(values))
    IN  IF direction \in {"increasing", "decreasing"}
        THEN IF g.den = 0 THEN [raised |-> "ZeroDivisionError"]
             ELSE [raised |-> "none", value |-> g]
        ELSE [raised |-> "none", value |-> [num |-> 0, den |-> 1]]

\* round(growth_rate, 2) if growth_rate else None, in hundredths
ReportedGrowth(g) ==
    IF g.num = 0 THEN NULL ELSE Some(RoundHalfEven(g.num * 100, g.den))

TrendAnalysis(metric, trends, direction, g) ==
    [ trend_type      |-> metric,
      data_points     |-> trends,
      trend_direction |-> direction,
      growth_rate     |-> ReportedGrowth(g) ]

\* AnalyticalResponse declares data, metadata and suggestions without
\* defaults; a call that leaves one out raises pydantic's ValidationError,
\* which is a ValueError
AnalyticalResponseFields == {"data", "metadata", "suggestions"}

AnalyticalResponse(given) ==
    IF AnalyticalResponseFields \subseteq DOMAIN given
    THEN [raised |-> "none", value |-> given]
    ELSE [raised |-> "ValueError"]

\* main.get_daily_trends: ValueError becomes 400, any other exception 500
TrendsEndpoint(metric, days_back, channel, elapsed_us) ==
    LET r == WithExecutor(get_daily_trends(messages, metric, days_back, channel,
                                           elapsed_us), outage)
        values    == [n \in DOMAIN r.trends |-> r.trends[n].value]
        direction == TrendDirection(values)
        growth    == growth_rate(values)
        analysis  == TrendAnalysis(metric, r.trends, direction, growth.value)
        response  == AnalyticalResponse([data |-> analysis, metadata |-> r.metadata])
    IN  /\ call.op = "none"
        /\ call' = [ op |-> "get_daily_trends", metric |-> metric,
                     days_back |-> days_back, channel |-> channel ]
        /\ executed' = r.executed
        /\ locals' =
             IF r.raised # "none"
             THEN [ raised |-> r.raised, trends |-> NULL, trend_direction |-> NULL,
                    trend_analysis |-> NULL ]
             ELSE IF growth.raised # "none"
             THEN [ raised |-> growth.raised, trends |-> Some(values),
                    trend_direction |-> Some(direction), trend_analysis |-> NULL ]
             ELSE [ raised |-> response.raised, trends |-> Some(values),
                    trend_direction |-> Some(direction),
                    trend_analysis |-> Some(analysis) ]
        /\ result' =
             IF r.raised # "none"
             THEN [ kind |-> "HTTPException",
                    status_code |-> IF r.raised = "ValueError" THEN 400 ELSE 500 ]
             ELSE IF growth.raised # "none"
             THEN [ kind |-> "HTTPException", status_code |-> 500 ]
             ELSE IF response.raised # "none"
             THEN [ kind |-> "HTTPException",
                    status_code |-> IF response.raised = "ValueError" THEN 400 ELSE 500 ]
             ELSE [ kind |-> "return", body |-> response.value ]
        /\ UNCHANGED <<warehouse, outage, requests, pool>>

(***************************************************************************)
(* Channel comparison: AnalyticalCRUD.get_channel_comparison               *)
(***************************************************************************)
\* the rows of one channel WHERE message_date >= :cutoff_date
ChannelWindow(msgs, channel, cutoff_date) == WindowRows(msgs, channel, cutoff_date)

\* channel_stats for one channel and the rounding of the outer SELECT:
\* avg_daily_posts and media_percentage in hundredths, the others in
\* thousandths.  COUNT(*) / :days_back divides two integers.
channel_stats(msgs, channel, cutoff_date, days_back) ==
    LET ids     == ChannelWindow(msgs, channel, cutoff_date)
        n       == Len(ids)
        media   == SumSeq([k \in DOMAIN ids |-> Flag(msgs[ids[k]].has_media)])
        medical == SumSeq([k \in DOMAIN ids |-> Flag(IsMedicalContent(msgs[ids[k]]))])
        engage  == SumSeq(Column(msgs, ids, "engagement_score"))
    IN  [ channel_name          |-> channel,
          total_messages        |-> n,
          avg_daily_posts       |-> RoundHalfUp(n * 100, days_back),
          media_percentage      |-> RoundHalfUp(media * 100 * 100, n),
          avg_sentiment         |-> RoundHalfUp(engage * 1000, n),
          medical_content_ratio |-> RoundHalfUp(medical * 1000, n),
          engagement_score      |->
              RoundHalfUp(1000 * ( 10 * (3 * engage + 3 * media + 2 * medical)
                                   + 2 * n * (n \div days_back) ),
                          100 * n) ]

\* the channels GROUP BY m.channel yields: those with a row in the window
ComparedChannels(msgs, cutoff_date) ==
    { msgs[i].channel : i \in { j \in DOMAIN msgs : msgs[j].message_date >= cutoff_date } }

\* the orders ORDER BY engagement_score DESC allows
ComparisonOrders(msgs, cutoff_date, days_back) ==
    { ord \in Perms(ComparedChannels(msgs, cutoff_date)) :
        \A a, b \in DOMAIN ord :
            a < b => channel_stats(msgs, ord[a], cutoff_date, days_back).engagement_score
                       >= channel_stats(msgs, ord[b], cutoff_date, days_back).engagement_score }

comparison_query(msgs, ord, cutoff_date, days_back) ==
    [ k \in DOMAIN ord |-> channel_stats(msgs, ord[k], cutoff_date, days_back) ]

\* the bounds the ChannelMetrics schema declares
ChannelMetricsValid(row) ==
    /\ row.total_messages >= 0
    /\ row.avg_daily_posts >= 0
    /\ row.media_percentage >= 0 /\ row.media_percentage <= 100 * 100
    /\ row.avg_sentiment >= -1000 /\ row.avg_sentiment <= 1000
    /\ row.medical_content_ratio >= 0 /\ row.medical_content_ratio <= 1000
    /\ row.engagement_score >= 0

\* the whole operation; a row outside the schema's bounds raises pydantic's
\* ValidationError, a ValueError
get_channel_comparison(msgs, ord, days_back, elapsed_us) ==
    LET results == comparison_query(msgs, ord, Today - days_back, days_back)
        query   == << [query |-> "comparison_query", days_back |-> days_back] >>
    IN  IF \E k \in DOMAIN results : ~ChannelMetricsValid(results[k])
        THEN [ raised |-> "ValueError", executed |-> query ]
        ELSE [ raised   |-> "none",
               executed |-> query,
               metrics  |-> results,
               metadata |-> get_query_metadata(elapsed_us, Len(results)) ]

\* max(metrics, key=...): the first record with the largest engagement_score
TopPerformer(metrics) ==
    LET best == CHOOSE k \in DOMAIN metrics :
                    /\ \A j \in DOMAIN metrics :
                           metrics[j].engagement_score <= metrics[k].engagement_score
                    /\ \A j \in 1..(k - 1) :
                           metrics[j].engagement_score < metrics[k].engagement_score
    IN  metrics[best].channel_name

\* what the handler's "except Exception" makes of an exception raised in
\* its try block, the HTTPException(404) of the empty case included
ComparisonStatus(raised) == 500

\* main.get_channel_comparison
ChannelComparisonEndpoint(days_back, elapsed_us) ==
    /\ call.op = "none"
    /\ \E ord \in ComparisonOrders(messages, Today - days_back, days_back) :
         LET r == WithExecutor(get_channel_comparison(messages, ord, days_back,
                                                      elapsed_us), outage)
             raised == IF r.raised # "none" THEN r.raised
                       ELSE IF r.metrics = <<>> THEN "HTTPException404"
                       ELSE "none"
         IN  /\ call' = [ op |-> "get_channel_comparison", days_back |-> days_back ]
             /\ executed' = r.executed
             /\ locals' = IF r.raised # "none" THEN [ raised |-> raised ]
                          ELSE [ raised |-> raised, metrics |-> r.metrics,
                                 metadata |-> r.metadata ]
             /\ result' =
                  IF raised # "none"
                  THEN [ kind |-> "HTTPException",
                         status_code |-> ComparisonStatus(raised) ]
                  ELSE [ kind |-> "return",
                         body |-> [ channels      |-> r.metrics,
                                    days_back     |-> days_back,
                                    top_performer |-> TopPerformer(r.metrics) ] ]
             /\ UNCHANGED <<warehouse, outage, requests, pool>>

(***************************************************************************)
(* Detection summary: AnalyticalCRUD.get_object_detection_summary          *)
(***************************************************************************)
TopObjectsLimit == 10

\* the detections WHERE detection_timestamp >= :cutoff_date, in table order
DetectionWindow(dets, cutoff_date) ==
    SelectIdx([i \in DOMAIN dets |-> i],
              [i \in DOMAIN dets |-> dets[i].detection_timestamp >= cutoff_date])

\* the aggregates without GROUP BY: exactly one row
detection_query(dets, cutoff_date) ==
    LET ids == DetectionWindow(dets, cutoff_date)
        sum(field) == SqlSum([k \in DOMAIN ids |-> Flag(dets[ids[k]][field])])
    IN  << [ total_detections     |-> Len(ids),
             unique_objects       |-> Cardinality({dets[ids[k]].class_name :
                                                      k \in DOMAIN ids}),
             medical_objects      |-> sum("is_medical_relevant"),
             avg_confidence       |-> SqlAvg(Column(dets, ids, "confidence_score")),
             person_detections    |-> sum("contains_person"),
             equipment_detections |-> sum("contains_medical_equipment"),
             hygiene_detections   |-> sum("contains_hygiene_products") ] >>

\* one group of top_objects_query
class_stats(dets, cutoff_date, class_name) ==
    LET ids == SelectIdx(DetectionWindow(dets, cutoff_date),
                         [i \in DOMAIN dets |-> dets[i].class_name = class_name])
    IN  [ class_name      |-> class_name,
          detection_count |-> Len(ids),
          avg_confidence  |-> SqlAvg(Column(dets, ids, "confidence_score")) ]

DetectedClasses(dets, cutoff_date) ==
    { dets[i].class_name :
        i \in { j \in DOMAIN dets : dets[j].detection_timestamp >= cutoff_date } }

\* the orders ORDER BY detection_count DESC allows
ObjectOrders(dets, cutoff_date) ==
    { ord \in Perms(DetectedClasses(dets, cutoff_date)) :
        \A a, b \in DOMAIN ord :
            a < b => class_stats(dets, cutoff_date, ord[a]).detection_count
                       >= class_stats(dets, cutoff_date, ord[b]).detection_count }

top_objects_query(dets, ord, cutoff_date) ==
    [ k \in 1..Min(Len(ord), TopObjectsLimit) |-> class_stats(dets, cutoff_date, ord[k]) ]

\* round(avg, 3) if avg else 0, confidences held in thousandths
ConfidenceOrZero(avg) ==
    IF avg = NULL \/ Val(avg).num = 0 THEN 0
    ELSE RoundHalfEven(Val(avg).num, Val(avg).den)

\* the whole operation
get_object_detection_summary(dets, ord, days_back, elapsed_us) ==
    LET summary_results == detection_query(dets, Today - days_back)
        objects_results == top_objects_query(dets, ord, Today - days_back)
        row == summary_results[1]
    IN  [ raised   |-> "none",
          executed |-> << [query |-> "detection_query"],
                          [query |-> "top_objects_query"] >>,
          summary  |->
            [ total_detections     |-> row.total_detections,
              unique_objects       |-> row.unique_objects,
              medical_objects      |-> row.medical_objects,
              avg_confidence       |-> ConfidenceOrZero(row.avg_confidence),
              person_detections    |-> row.person_detections,
              equipment_detections |-> row.equipment_detections,
              hygiene_detections   |-> row.hygiene_detections,
              top_objects          |->
                [ k \in DOMAIN objects_results |->
                    [ class_name     |-> objects_results[k].class_name,
                      count          |-> objects_results[k].detection_count,
                      avg_confidence |->
                          RoundHalfEven(Val(objects_results[k].avg_confidence).num,
                                        Val(objects_results[k].avg_confidence).den) ] ] ],
          metadata |-> get_query_metadata(elapsed_us,
                                          Len(summary_results) + Len(objects_results)) ]

\* main.get_object_detection_summary: every exception becomes 500
DetectionSummaryEndpoint(days_back, elapsed_us) ==
    /\ call.op = "none"
    /\ \E ord \in ObjectOrders(detections, Today - days_back) :
         LET r == WithExecutor(get_object_detection_summary(detections, ord, days_back,
                                                            elapsed_us), outage)
             response == AnalyticalResponse([ data        |-> r.summary,
                                              metadata    |-> r.metadata,
                                              suggestions |->
                                                << "filter by category",
                                                   "compare confidence",
                                                   "equipment vs hygiene" >> ])
         IN  /\ call' = [ op |-> "get_object_detection_summary",
                          days_back |-> days_back ]
             /\ executed' = r.executed
             /\ locals' = IF r.raised # "none" THEN [ raised |-> r.raised ]
                          ELSE [ raised |-> response.raised, metadata |-> r.metadata ]
             /\ result' = IF r.raised # "none" \/ response.raised # "none"
                          THEN [ kind |-> "HTTPException", status_code |-> 500 ]
                          ELSE [ kind |-> "return", body |-> response.value ]
             /\ UNCHANGED <<warehouse, outage, requests, pool>>

(***************************************************************************)
(* Health check: AnalyticalCRUD.get_health_check and main.health_check     *)
(***************************************************************************)
\* datetime.min, below every date of the warehouse
DateTimeMin == 0

\* MAX(column) over a table: NULL when the table is empty
SqlMax(values) ==
    IF values = <<>> THEN NULL
    ELSE Some(CHOOSE m \in Range(values) : \A v \in Range(values) : v <= m)

\* the four scalar subqueries: always exactly one row
health_query(msgs, dets) ==
    << [ total_messages      |-> Len(msgs),
         total_detections    |-> Len(dets),
         last_message_date   |-> SqlMax([i \in DOMAIN msgs |-> msgs[i].message_date]),
         last_detection_date |-> SqlMax([i \in DOMAIN dets |->
                                            dets[i].detection_timestamp]) ] >>

\* row['...'] or datetime.min
OrMin(date) == IF date = NULL THEN DateTimeMin ELSE Val(date)

\* the except branch that lets the failure out, as the other operations do
HealthCheckFailedRaises(attempt, elapsed_us) ==
    [ raised |-> attempt.raised, executed |-> attempt.executed ]

\* the except branch: the failure is logged and turned into a result
HealthCheckFailed(attempt, elapsed_us) ==
    [ raised      |-> "none",
      executed    |-> attempt.executed,
      health_data |-> [ database_status  |-> "error",
                        total_messages   |-> 0,
                        total_detections |-> 0,
                        last_update      |-> Today ],
      metadata    |-> get_query_metadata(elapsed_us, 0) ]

\* the whole operation
get_health_check(msgs, dets, fail_at, elapsed_us) ==
    LET results == health_query(msgs, dets)
        attempt == WithExecutor([ raised   |-> "none",
                                  executed |-> << [query |-> "health_query"] >> ],
                                fail_at)
    IN  IF attempt.raised # "none"
        THEN HealthCheckFailed(attempt, elapsed_us)
        ELSE [ raised      |-> "none",
               executed    |-> attempt.executed,
               health_data |->
                 IF results # <<>>
                 THEN [ database_status  |-> "healthy",
                        total_messages   |-> results[1].total_messages,
                        total_detections |-> results[1].total_detections,
                        last_update      |-> Max(OrMin(results[1].last_message_date),
                                                 OrMin(results[1].last_detection_date)) ]
                 ELSE [ database_status  |-> "error",
                        total_messages   |-> 0,
                        total_detections |-> 0,
                        last_update      |-> Today ],
               metadata    |-> get_query_metadata(elapsed_us, Len(results)) ]

\* main.health_check: 200 with the HealthCheck body, or 503 when anything
\* raises
HealthCheckEndpoint(elapsed_us) ==
    LET r == get_health_check(messages, detections, outage, elapsed_us)
    IN  /\ call.op = "none"
        /\ call' = [ op |-> "get_health_check" ]
        /\ executed' = r.executed
        /\ locals' = IF r.raised # "none" THEN [ raised |-> r.raised ]
                     ELSE [ health_data |-> r.health_data, metadata |-> r.metadata ]
        /\ result' = IF r.raised # "none"
                     THEN [ kind |-> "HTTPException", status_code |-> 503 ]
                     ELSE [ kind |-> "return", status_code |-> 200,
                            body |-> r.health_data ]
        /\ UNCHANGED <<warehouse, outage, requests, pool>>

(***************************************************************************)
(* Concurrent invocations and the connection pool: database.engine         *)
(***************************************************************************)
\* create_engine(poolclass=QueuePool, pool_size=10, max_overflow=20)
pool_size == 10

max_overflow == 20

PoolCapacity == pool_size + max_overflow

\* what engine.connect() raises when no connection was freed within the
\* pool's wait timeout
PoolTimeout == "TimeoutError"

\* the threads that run analytical operations side by side
Threads == {"t1", "t2"}

\* a thread that is running no operation
IdleRequest == [phase |-> "idle"]

\* the names of the queries an invocation gives the executor when each of them
\* is answered, in order; r is what the operation computes in that case
QueryNames(r) == [i \in DOMAIN r.executed |-> r.executed[i].query]

\* QueuePool hands out a connection while fewer than pool_size + max_overflow
\* are checked out
PoolHasRoomAtCapacity(p) == p.checkedout <= PoolCapacity

PoolHasRoom(p) == p.checkedout < PoolCapacity

\* engine.connect() returned: the connection is checked out
CheckedOut(p) == [p EXCEPT !.checkedout = @ + 1]

ReleasedOnSuccess(p, ok) == IF ok THEN [p EXCEPT !.checkedout = @ - 1] ELSE p

\* leaving "with engine.connect() as connection", normally (ok) or by an
\* exception: the connection goes back to the pool
Released(p, ok) == [p EXCEPT !.checkedout = @ - 1]

OnFailureRetry(req, failure) == [req EXCEPT !.phase = "calling"]

\* an executor call raised: execute_analytical_query logs and re-raises, the
\* operation logs and re-raises, except get_health_check, which returns its
\* error record
OnFailure(req, failure) ==
    [req EXCEPT !.phase   = "finished",
                !.failure = failure,
                !.outcome = IF req.op = "get_health_check" THEN "return"
                            ELSE failure]

\* the last query was answered: the operation returns, or raises what its own
\* code raises after the queries
OnCompletion(req) ==
    [req EXCEPT !.phase   = "finished",
                !.outcome = IF req.ending = "none" THEN "return" ELSE req.ending]

\* a thread enters operation op; r is what the operation computes when every
\* query is answered
Start(t, op, r) ==
    /\ requests[t].phase = "idle"
    /\ LET req == [ phase     |-> "calling",
                    op        |-> op,
                    plan      |-> QueryNames(r),
                    ending    |-> r.raised,
                    done      |-> 0,
                    submitted |-> <<>>,
                    connects  |-> 0,
                    failure   |-> "none",
                    outcome   |-> "none" ]
       IN  requests' = [requests EXCEPT ![t] =
                            IF req.plan = <<>> THEN OnCompletion(req) ELSE req]
    /\ UNCHANGED <<warehouse, outage, call, executed, locals, result, pool>>

\* execute_analytical_query is entered and engine.connect() finds room
Connect(t) ==
    /\ requests[t].phase = "calling"
    /\ PoolHasRoom(pool)
    /\ pool' = CheckedOut(pool)
    /\ requests' = [requests EXCEPT
                       ![t].phase     = "holding",
                       ![t].submitted = Append(@, requests[t].plan[requests[t].done + 1]),
                       ![t].connects  = @ + 1]
    /\ UNCHANGED <<warehouse, outage, call, executed, locals, result>>

\* execute_analytical_query is entered and engine.connect() finds the pool
\* exhausted: the thread waits
Block(t) ==
    /\ requests[t].phase = "calling"
    /\ ~PoolHasRoom(pool)
    /\ requests' = [requests EXCEPT
                       ![t].phase     = "waiting",
                       ![t].submitted = Append(@, requests[t].plan[requests[t].done + 1])]
    /\ UNCHANGED <<warehouse, outage, call, executed, locals, result, pool>>

\* a connection was freed while the thread waited
Acquire(t) ==
    /\ requests[t].phase = "waiting"
    /\ PoolHasRoom(pool)
    /\ pool' = CheckedOut(pool)
    /\ requests' = [requests EXCEPT ![t].phase = "holding", ![t].connects = @ + 1]
    /\ UNCHANGED <<warehouse, outage, call, executed, locals, result>>

\* the wait timed out: engine.connect() raises
Timeout(t) ==
    /\ requests[t].phase = "waiting"
    /\ requests' = [requests EXCEPT ![t] = OnFailure(requests[t], PoolTimeout)]
    /\ UNCHANGED <<warehouse, outage, call, executed, locals, result, pool>>

\* connection.execute answers (ok) or raises, and the with block is left
Execute(t, ok) ==
    /\ requests[t].phase = "holding"
    /\ pool' = Released(pool, ok)
    /\ requests' = [requests EXCEPT ![t] =
           IF ~ok THEN OnFailure(requests[t], QueryFailure)
           ELSE IF requests[t].done + 1 = Len(requests[t].plan)
           THEN OnCompletion([requests[t] EXCEPT !.done = @ + 1])
           ELSE [requests[t] EXCEPT !.done = @ + 1, !.phase = "calling"]]
    /\ UNCHANGED <<warehouse, outage, call, executed, locals, result>>

\* the caller has taken the outcome
Reset(t) ==
    /\ requests[t].phase = "finished"
    /\ requests' = [requests EXCEPT ![t] = IdleRequest]
    /\ UNCHANGED <<warehouse, outage, call, executed, locals, result, pool>>

\* n other users of the engine (sessions of get_db, the connection test)
\* check connections out
OtherAcquire(n) ==
    /\ pool.checkedout + n <= PoolCapacity
    /\ pool' = [pool EXCEPT !.checkedout = @ + n, !.others = @ + n]
    /\ UNCHANGED <<warehouse, outage, call, executed, locals, result, requests>>

\* and close them
OtherRelease(n) ==
    /\ pool.others >= n
    /\ pool' = [pool EXCEPT !.checkedout = @ - n, !.others = @ - n]
    /\ UNCHANGED <<warehouse, outage, call, executed, locals, result, requests>>

\* the steps of thread t between entering an operation and its outcome
ThreadStep(t) ==
    \/ Connect(t)
    \/ Block(t)
    \/ Acquire(t)
    \/ Timeout(t)
    \/ \E ok \in BOOLEAN : Execute(t, ok)

(***************************************************************************)
(* State machine                                                           *)
(***************************************************************************)
Init ==
    /\ messages = <<>>
    /\ dim_channels = { <<"@", "a">>, <<"@", "b">> }
    /\ detections = <<>>
    /\ outage = 0
    /\ requests = [t \in Threads |-> IdleRequest]
    /\ pool = [checkedout |-> 0, others |-> 0]
    /\ call = [op |-> "none"]
    /\ executed = <<>>
    /\ locals = [op |-> "none"]
    /\ result = [kind |-> "none"]

\* the warehouse load (outside the engine) adds a message row
LoadRow(rows, max) ==
    /\ call.op = "none"
    /\ Len(messages) < max
    /\ \E r \in rows : messages' = Append(messages, r)
    /\ UNCHANGED <<dim_channels, detections, outage, call, executed, locals, result,
                 requests, pool>>

\* the detection pipeline (outside the engine) adds a detection row
LoadDetection(rows, max) ==
    /\ call.op = "none"
    /\ Len(detections) < max
    /\ \E r \in rows : detections' = Append(detections, r)
    /\ UNCHANGED <<messages, dim_channels, outage, call, executed, locals, result,
                   requests, pool>>

\* the warehouse becomes unreachable or unable to answer the k-th query of
\* an invocation (k = 0: it answers them all)
SetOutage(k) ==
    /\ call.op = "none"
    /\ outage # k
    /\ outage' = k
    /\ UNCHANGED <<warehouse, call, executed, locals, result, requests, pool>>

\* the response has been serialized and sent: everything computed for the
\* request is discarded
Deliver ==
    /\ call.op # "none"
    /\ call' = [op |-> "none"]
    /\ executed' = <<>>
    /\ locals' = [op |-> "none"]
    /\ result' = [kind |-> "none"]
    /\ UNCHANGED <<warehouse, outage, requests, pool>>

\* a direct call of the static method
GetQueryMetadata(elapsed_us, row_count) ==
    /\ call.op = "none"
    /\ call' = [ op |-> "get_query_metadata",
                 elapsed_us |-> elapsed_us, row_count |-> row_count ]
    /\ executed' = <<>>
    /\ locals' = [op |-> "get_query_metadata"]
    /\ result' = [ kind |-> "return",
                   body |-> get_query_metadata(elapsed_us, row_count) ]
    /\ UNCHANGED <<warehouse, outage, requests, pool>>

(***************************************************************************)
(* Inputs                                                                  *)
(***************************************************************************)
\* elapsed times around the two thresholds, in microseconds
ElapsedTimes ==
    { ms * 1000 + d : ms \in {50, 100, 200, 500, 600}, d \in {-6, -4, 0, 5} }

RowCounts == {0, 50, 500, 999, 1000, 1001, 5000, 9999, 10000, 20000}

\* what one request takes
RequestElapsed == {2500}

NoFilters ==
    [ channels |-> NULL, date_from |-> NULL, date_to |-> NULL,
      has_media |-> NULL, sentiment |-> NULL ]

RECURSIVE JoinSp(_)
JoinSp(tokens) ==
    IF tokens = <<>> THEN <<>>
    ELSE IF Len(tokens) = 1 THEN Head(tokens)
    ELSE Head(tokens) \o <<" ">> \o JoinSp(Tail(tokens))

RECURSIVE SeqsUpTo(_, _)
SeqsUpTo(S, n) ==
    IF n = 0 THEN {<<>>}
    ELSE LET shorter == SeqsUpTo(S, n - 1)
         IN  shorter \cup {Append(q, x) : q \in shorter, x \in S}

MaxTerms == 3
MaxSearchRows == 2
MaxPagingRows == 4

QueryTokens ==
    { <<"a", "b">>, <<"a", "b", "c">>, <<"B", "C", "D">>, <<"c", "d", "e">> }

Queries == { JoinSp(ts) : ts \in SeqsUpTo(QueryTokens, MaxTerms) }

SearchTexts ==
    { NULL, Some(<<"a", "b", "c", "d", "e">>), Some(<<"x", "A", "B", "C">>),
      Some(<<"b", "c", "d", "e">>) }

SearchRows == { [BaseRow EXCEPT !.message_text = t] : t \in SearchTexts }

MinRelevances == {0, 6000}

DefaultPageSize == 20

PagingRows ==
    { [BaseRow EXCEPT !.message_text = Some(t)] :
          t \in {<<"x", "A", "B", "C">>, <<"c", "d">>} }

Pages == 1..3

PageSizes == 1..3

\* filters: rows that differ in channel, date, media flag and engagement
\* bucket, and every combination of absent and supplied filters
MaxFilterRows == 2

FilterRows ==
    { [BaseRow EXCEPT !.message_text = Some(<<"a", "b", "c", "d", "e">>),
                      !.channel = r[1], !.message_date = r[2],
                      !.has_media = r[3], !.engagement_category = r[4]] :
          r \in { <<<<"@", "a">>, Today, TRUE, "high">>,
                  <<<<"@", "a">>, Today - 2, FALSE, "medium">>,
                  <<<<"@", "b">>, Today, FALSE, "low">>,
                  <<<<"@", "b">>, Today - 2, TRUE, "medium">> } }

FilterQueries ==
    { <<"a", "b", "c">>, <<"c", "d", "e">>, <<"c", "d", "e", " ", "x", "y", "z">> }

FilterInputs ==
    [ channels  : {NULL, Some(<<<<"a">>>>), Some(<<<<"@", "b">>>>)},
      date_from : {NULL, Some(Today - 1)},
      date_to   : {NULL, Some(Today - 1)},
      has_media : {NULL, Some(TRUE), Some(FALSE)},
      sentiment : {NULL, Some("positive"), Some("neutral")} ]

\* channel names with and without the marker, at the three places that
\* take one
MaxChannelRows == 2

ChannelRows ==
    { [BaseRow EXCEPT !.message_text = Some(<<"a", "b", "c">>), !.text_length = 3,
                      !.channel = c, !.message_date = d]
        : c \in { <<"@", "a">>, <<"@", "b">> }, d \in { Today - 1, Today } }

NameInputs == { <<"a">>, <<"@", "a">>, <<"@", "b">>, <<"z">> }

ChannelLists == { <<x>> : x \in NameInputs } \cup { << <<"a">>, <<"@", "b">> >> }

\* texts longer than the 200 characters the search returns: "abcde" across
\* the cut (characters 199 to 203), and "abc" before 200 further characters
MaxTruncationRows == 2

Filler(n) == [i \in 1..n |-> "x"]

TruncationTexts ==
    { Filler(LeftLen - 2) \o <<"a", "b", "c", "d", "e">>,
      <<"A", "b", "c">> \o Filler(LeftLen),
      <<"x", "x", "a", "b", "c">>,
      <<"c", "d", "e", "x", "x", "x">> }

TruncationRows == { [BaseRow EXCEPT !.message_text = Some(t)] : t \in TruncationTexts }

TruncationQueries ==
    { <<"a", "b", "c", " ", "x", "x", "x">>,
      <<"c", "d", "e", " ", "A", "B", "C", " ", "x", "x", "x">>,
      <<"a", "b", "c", "d", "e", " ", "c", "d", "e">>,
      <<"A", "b", "c">> }

\* wildcards: terms that hold the LIKE metacharacters _ and %, over texts
\* that hold them literally or not
MaxWildcardRows == 2

WildcardTexts ==
    { <<"a", "b", "c">>, <<"a", "_", "c">>, <<"a", "%", "c">>,
      <<"a", "b", "x", "c">>, <<"A", "_", "C">> }

WildcardRows == { [BaseRow EXCEPT !.message_text = Some(t)] : t \in WildcardTexts }

WildcardQueries ==
    { <<"a", "_", "c">>, <<"a", "%", "c">>, <<"A", "B", "C">> }

\* ranking: texts matching 3, 1 and 2 of the terms abc, BCD, cde, on two dates
MaxRankingRows == 3

RankingQuery == <<"a", "b", "c", " ", "B", "C", "D", " ", "c", "d", "e">>

RankingRows ==
    { [BaseRow EXCEPT !.message_text = Some(r[1]), !.message_date = r[2]] :
          r \in { <<<<"a", "b", "c", "d", "e">>, Today>>,
                  <<<<"x", "A", "B", "C">>, Today>>,
                  <<<<"b", "c", "d", "e">>, Today - 1>>,
                  <<<<"b", "c", "d", "e">>, Today>> } }

\* 0, just below and just above 1/3, and just above 2/3
RankingMinRelevances == {0, 3333, 3334, 6667}

RankingPages == 1..2

RankingPageSizes == 1..2

MaxProductRows == 3

TextOneEach == <<"a", "s", "p", "i", "r", "i", "n", ",", " ", "I", "n", "s", "u", "l", "i", "n">>

TextTwoAspirin == <<"a", "s", "p", "i", "r", "i", "n", " ", "a", "s", "p", "i", "r", "i", "n">>

TextOneUpper == <<"A", "S", "P", "I", "R", "I", "N", " ", "n", "o", "w", "!">>

TextCodeine == <<"c", "o", "d", "e", "i", "n", "e", " ", "+", " ", "i", "n", "s", "u", "l", "i", "n">>

TextShort == <<"i", "n", "s", "u", "l", "i", "n">>

\* a qualifying row of each text, and rows that fail one test of the window
ProductRows ==
    LET row(t, day, medical) ==
            [BaseRow EXCEPT !.message_text = Some(t), !.message_date = day,
                            !.is_pharmacy_content = medical,
                            !.engagement_score = 500]
    IN  { row(TextOneEach, Today - 1, TRUE),
          row(TextTwoAspirin, Today - 1, TRUE),
          row(TextOneUpper, Today, TRUE),
          row(TextCodeine, Today, TRUE),
          row(TextShort, Today, TRUE),
          row(TextTwoAspirin, Today - 5, TRUE),
          row(TextTwoAspirin, Today, FALSE) }

ProductLimits == {1, 10}

\* two products mentioned twice per row, on two dates, with engagement
\* signals 0, above 1000 and below -1000
MaxOrderRows == 2

TextTwoInsulin == <<"i", "n", "s", "u", "l", "i", "n", " ", "i", "n", "s", "u", "l", "i", "n">>

OrderRows ==
    { [BaseRow EXCEPT !.message_text = Some(t), !.text_length = 15,
                      !.message_date = d, !.is_pharmacy_content = TRUE,
                      !.engagement_score = e]
        : t \in {TextTwoAspirin, TextTwoInsulin}, d \in {Today - 1, Today},
          e \in {0, 2500, -3000} }

DaysBack == {1, 30}

MaxActivityRows == 3

ActivityRows ==
    { [BaseRow EXCEPT !.message_text = Some(<<"h", "i">>), !.text_length = 2,
                      !.channel = c, !.message_date = d, !.has_media = m]
        : c \in {<<"@", "a">>, <<"@", "b">>}, d \in {Today, Today - 5},
          m \in BOOLEAN }

ChannelNames == { <<"a">>, <<"@", "b">>, <<"z">> }

MaxTrendRows == 3

\* three days; engagement 20 and 21 are exactly 5% apart
TrendRows ==
    { [BaseRow EXCEPT !.message_text = Some(<<"h", "i">>), !.message_date = d,
                      !.engagement_score = e[1], !.has_media = e[2]]
        : d \in {Today - 2, Today - 1, Today},
          e \in {<<0, FALSE>>, <<20, TRUE>>, <<21, FALSE>>} }

Metrics == metric_calculations \cup {"engagement"}

TrendDaysBack == {30}

TrendChannels == { NULL, Some(<<"a">>) }

MaxHealthRows == 2

HealthRows ==
    { [BaseRow EXCEPT !.message_text = Some(<<"h", "i">>), !.message_date = d]
        : d \in {Today - 3, Today} }

\* rows of marts.fct_image_detections
DetectionRows ==
    { [ class_name                 |-> c[1],
        confidence_score           |-> c[2],
        is_medical_relevant        |-> c[3],
        contains_person            |-> FALSE,
        contains_medical_equipment |-> c[3],
        contains_hygiene_products  |-> FALSE,
        detection_timestamp        |-> d ]
        : c \in { <<"bottle", 900, TRUE>>, <<"person", 455, FALSE>> },
          d \in {Today - 2, Today} }

\* the executor call of an invocation that fails, 0 for none
Outages == 0..1

MaxComparisonRows == 3

\* engagement signals inside and outside the [-1, 1] of ChannelMetrics
ComparisonRows ==
    { [BaseRow EXCEPT !.message_text = Some(<<"h", "i">>), !.channel = c,
                      !.message_date = d, !.engagement_score = e[1],
                      !.has_media = e[2], !.is_pharmacy_content = e[2]]
        : c \in { <<"@", "a">>, <<"@", "b">> },
          d \in { Today, Today - 5 },
          e \in { <<0, FALSE>>, <<1, TRUE>>, <<500, FALSE>> } }

ComparisonDaysBack == {1, 2, 30}

MaxFaultRows == 2

\* the executor calls of one channel-activity invocation
ActivityQueries == 4

\* rows of a warehouse whose hour column is not always an hour of the day
FaultRows ==
    { [BaseRow EXCEPT !.message_text = Some(<<"h", "i">>), !.text_length = 2,
                      !.channel = c, !.message_date = Today, !.message_hour = h]
        : c \in {<<"@", "a">>, <<"@", "b">>}, h \in {9, 24} }

MaxEndpointRows == 2

\* two messages that top products, search, activity, comparison and trends
\* all answer on
EndpointRows ==
    { [BaseRow EXCEPT !.message_text = Some(TextTwoAspirin), !.text_length = 15,
                      !.message_date = d, !.is_pharmacy_content = TRUE,
                      !.has_media = m]
        : d \in {Today - 1, Today}, m \in BOOLEAN }

\* the defaults of the endpoints' limit and days_back parameters
DefaultLimit == 10

DefaultDaysBack == 30

MaxPoolRows == 1

PoolQuery == <<"a", "s", "p", "i", "r", "i", "n">>

PoolRows ==
    { [BaseRow EXCEPT !.message_text = Some(TextTwoAspirin), !.text_length = 15,
                      !.message_date = Today, !.is_pharmacy_content = TRUE] }

(***************************************************************************)
(* Specifications                                                          *)
(***************************************************************************)
\* the metadata annotator on its own
NextMeta ==
    \/ \E t \in ElapsedTimes, n \in RowCounts : GetQueryMetadata(t, n)
    \/ Deliver

SpecMeta == Init /\ [][NextMeta]_vars

\* search with the default page over varying queries and texts
NextSearch ==
    \/ LoadRow(SearchRows, MaxSearchRows)
    \/ \E q \in Queries, mr \in MinRelevances, t \in RequestElapsed :
           SearchEndpoint(q, NoFilters, mr, 1, DefaultPageSize, t)
    \/ Deliver

SpecSearch == Init /\ [][NextSearch]_vars

\* search with varying page windows
NextPaging ==
    \/ LoadRow(PagingRows, MaxPagingRows)
    \/ \E p \in Pages, ps \in PageSizes, t \in RequestElapsed :
           SearchEndpoint(<<"a", "b", "c">>, NoFilters, 0, p, ps, t)
    \/ Deliver

SpecPaging == Init /\ [][NextPaging]_vars

\* search with every combination of filters
NextFilters ==
    \/ LoadRow(FilterRows, MaxFilterRows)
    \/ \E q \in FilterQueries, f \in FilterInputs, t \in RequestElapsed :
           SearchEndpoint(q, f, 0, 1, DefaultPageSize, t)
    \/ Deliver

SpecFilters == Init /\ [][NextFilters]_vars

\* the three operations that take channel names
NextChannels ==
    \/ LoadRow(ChannelRows, MaxChannelRows)
    \/ \E t \in RequestElapsed :
        \/ \E x \in NameInputs : ChannelActivityEndpoint(x, DefaultDaysBack, t)
        \/ \E cs \in ChannelLists :
               SearchEndpoint(<<"a", "b", "c">>,
                              [NoFilters EXCEPT !.channels = Some(cs)], 0, 1,
                              DefaultPageSize, t)
        \/ \E x \in NameInputs :
               TrendsEndpoint("message_count", DefaultDaysBack, Some(x), t)
    \/ Deliver

SpecChannels == Init /\ [][NextChannels]_vars

\* search over texts longer than the returned prefix
NextTruncation ==
    \/ LoadRow(TruncationRows, MaxTruncationRows)
    \/ \E q \in TruncationQueries, t \in RequestElapsed :
           SearchEndpoint(q, NoFilters, 0, 1, DefaultPageSize, t)
    \/ Deliver

SpecTruncation == Init /\ [][NextTruncation]_vars

\* search with terms that hold LIKE metacharacters
NextWildcards ==
    \/ LoadRow(WildcardRows, MaxWildcardRows)
    \/ \E q \in WildcardQueries, t \in RequestElapsed :
           SearchEndpoint(q, NoFilters, 0, 1, DefaultPageSize, t)
    \/ Deliver

SpecWildcards == Init /\ [][NextWildcards]_vars

\* search over rows that differ in score and date, with varying thresholds
\* and page windows
NextRanking ==
    \/ LoadRow(RankingRows, MaxRankingRows)
    \/ \E mr \in RankingMinRelevances, p \in RankingPages,
          ps \in RankingPageSizes, t \in RequestElapsed :
           SearchEndpoint(RankingQuery, NoFilters, mr, p, ps, t)
    \/ Deliver

SpecRanking == Init /\ [][NextRanking]_vars

\* top products over varying texts
NextProducts ==
    \/ LoadRow(ProductRows, MaxProductRows)
    \/ \E l \in ProductLimits, d \in DaysBack, t \in RequestElapsed :
           TopProductsEndpoint(l, d, t)
    \/ Deliver

SpecProducts == Init /\ [][NextProducts]_vars

\* top products over products that tie in mentions
NextProductOrder ==
    \/ LoadRow(OrderRows, MaxOrderRows)
    \/ \E l \in ProductLimits, t \in RequestElapsed :
           TopProductsEndpoint(l, DefaultDaysBack, t)
    \/ Deliver

SpecProductOrder == Init /\ [][NextProductOrder]_vars

\* channel activity over varying channels, days and media flags
NextActivity ==
    \/ LoadRow(ActivityRows, MaxActivityRows)
    \/ \E c \in ChannelNames, d \in DaysBack, t \in RequestElapsed :
           ChannelActivityEndpoint(c, d, t)
    \/ Deliver

SpecActivity == Init /\ [][NextActivity]_vars

\* daily trends over varying days, engagement and media flags
NextTrends ==
    \/ LoadRow(TrendRows, MaxTrendRows)
    \/ \E m \in Metrics, d \in TrendDaysBack, c \in TrendChannels,
          t \in RequestElapsed :
           TrendsEndpoint(m, d, c, t)
    \/ Deliver

SpecTrends == Init /\ [][NextTrends]_vars

\* health check over varying tables, with and without an outage
NextHealth ==
    \/ LoadRow(HealthRows, MaxHealthRows)
    \/ LoadDetection(DetectionRows, MaxHealthRows)
    \/ \E k \in Outages : SetOutage(k)
    \/ \E t \in RequestElapsed : HealthCheckEndpoint(t)
    \/ Deliver

SpecHealth == Init /\ [][NextHealth]_vars

\* channel comparison over varying channels, days and signals
NextComparison ==
    \/ LoadRow(ComparisonRows, MaxComparisonRows)
    \/ \E k \in Outages : SetOutage(k)
    \/ \E d \in ComparisonDaysBack, t \in RequestElapsed :
           ChannelComparisonEndpoint(d, t)
    \/ Deliver

SpecComparison == Init /\ [][NextComparison]_vars

\* channel activity with executor failures and malformed rows
NextActivityFaults ==
    \/ LoadRow(FaultRows, MaxFaultRows)
    \/ \E k \in 0..ActivityQueries : SetOutage(k)
    \/ \E c \in ChannelNames, d \in DaysBack, t \in RequestElapsed :
           ChannelActivityEndpoint(c, d, t)
    \/ Deliver

SpecActivityFaults == Init /\ [][NextActivityFaults]_vars

\* the detection summary over varying detections, with and without an outage
NextDetections ==
    \/ LoadDetection(DetectionRows, MaxHealthRows)
    \/ \E k \in 0..2 : SetOutage(k)
    \/ \E d \in DaysBack, t \in RequestElapsed : DetectionSummaryEndpoint(d, t)
    \/ Deliver

SpecDetections == Init /\ [][NextDetections]_vars

\* the six analytical endpoints side by side
NextEndpoints ==
    \/ LoadRow(EndpointRows, MaxEndpointRows)
    \/ LoadDetection(DetectionRows, MaxEndpointRows)
    \/ \E t \in RequestElapsed :
        \/ TopProductsEndpoint(10, 30, t)
        \/ ChannelActivityEndpoint(<<"a">>, 30, t)
        \/ SearchEndpoint(<<"a", "s", "p", "i", "r", "i", "n">>, NoFilters, 0, 1,
                          DefaultPageSize, t)
        \/ ChannelComparisonEndpoint(30, t)
        \/ \E m \in Metrics : TrendsEndpoint(m, 30, NULL, t)
        \/ DetectionSummaryEndpoint(30, t)
    \/ Deliver

SpecEndpoints == Init /\ [][NextEndpoints]_vars

\* the operations run by concurrent threads over the shared pool
StartAny(t) ==
    \/ \E ord \in ProductOrders(messages, Today - DefaultDaysBack) :
           Start(t, "get_top_products",
                 get_top_products(ord, DefaultLimit, DefaultDaysBack, 0))
    \/ \E ord \in HourOrders(messages, <<"@", "a">>, Today - DefaultDaysBack) :
           Start(t, "get_channel_activity",
                 get_channel_activity(messages, dim_channels, ord, <<"a">>,
                                      DefaultDaysBack, 0))
    \/ \E ord \in SearchOrders(messages, search_terms(PoolQuery), NoFilters, 0) :
           Start(t, "search_messages",
                 search_messages(messages, ord, PoolQuery, NoFilters, 0,
                                 DefaultPageSize, 0, 0))
    \/ \E ord \in ComparisonOrders(messages, Today - DefaultDaysBack, DefaultDaysBack) :
           Start(t, "get_channel_comparison",
                 get_channel_comparison(messages, ord, DefaultDaysBack, 0))
    \/ Start(t, "get_daily_trends",
             get_daily_trends(messages, "message_count", DefaultDaysBack, NULL, 0))
    \/ \E ord \in ObjectOrders(detections, Today - DefaultDaysBack) :
           Start(t, "get_object_detection_summary",
                 get_object_detection_summary(detections, ord, DefaultDaysBack, 0))
    \/ Start(t, "get_health_check", get_health_check(messages, detections, 0, 0))

\* every operation on two threads; the other users of the engine come and go
\* together and leave one connection free
NextPool ==
    \/ LoadRow(PoolRows, MaxPoolRows)
    \/ \E t \in Threads : StartAny(t)
    \/ \E t \in Threads : ThreadStep(t)
    \/ \E t \in Threads : Reset(t)
    \/ OtherAcquire(PoolCapacity - 1)
    \/ OtherRelease(PoolCapacity - 1)

SpecPool == Init /\ [][NextPool]_vars

\* search and top products on two threads; the other users of the engine
\* come and go one by one
StartSome(t) ==
    \/ \E ord \in ProductOrders(messages, Today - DefaultDaysBack) :
           Start(t, "get_top_products",
                 get_top_products(ord, DefaultLimit, DefaultDaysBack, 0))
    \/ \E ord \in SearchOrders(messages, search_terms(PoolQuery), NoFilters, 0) :
           Start(t, "search_messages",
                 search_messages(messages, ord, PoolQuery, NoFilters, 0,
                                 DefaultPageSize, 0, 0))

NextExhaust ==
    \/ \E t \in Threads : StartSome(t)
    \/ \E t \in Threads : ThreadStep(t)
    \/ \E t \in Threads : Reset(t)
    \/ OtherAcquire(1)
    \/ OtherRelease(1)

SpecExhaust == Init /\ [][NextExhaust]_vars

\* every thread that can take a step eventually takes one (the scheduler runs
\* it; a wait ends by a connection or by the timeout)
SpecExhaustFair == SpecExhaust /\ \A t \in Threads : WF_vars(ThreadStep(t))

(***************************************************************************)
(* Properties                                                              *)
(***************************************************************************)
IsSearchReturn == call.op = "search_messages" /\ result.kind = "return"

\* the number of whitespace-separated tokens of the query longer than 2
SurvivingTermCount(query) ==
    LET tokens == Split(query)
    IN  Cardinality({i \in DOMAIN tokens : Len(tokens[i]) > 2})

\* C1 as stated: every relevance_score returned for a query with k surviving
\* terms is exactly one of 0, 1/k, ..., 1 (scores are in thousandths, so
\* score/1000 = m/k) and lies in [0,1].
C1_ScoreIsExactFraction ==
    IsSearchReturn =>
        LET k == SurvivingTermCount(call.query)
        IN  \A i \in DOMAIN result.body.matches :
                LET r == result.body.matches[i].relevance_score
                IN  /\ r >= 0 /\ r <= 1000
                    /\ \E m \in 0..k : r * k = m * 1000

\* C1 amended: every relevance_score returned is m/k rounded to 3 decimals for
\* some m in 0..k (within half a thousandth of m/k) and lies in [0,1].
C1_ScoreIsRoundedFraction ==
    IsSearchReturn =>
        LET k == SurvivingTermCount(call.query)
        IN  \A i \in DOMAIN result.body.matches :
                LET r == result.body.matches[i].relevance_score
                IN  /\ r >= 0 /\ r <= 1000
                    /\ \E m \in 0..k : 2 * Abs(r * k - m * 1000) <= k

\* a query of 3 surviving terms returned a row matching 2 of them and a row
\* matching all of them
C1_Witness ==
    /\ IsSearchReturn
    /\ SurvivingTermCount(call.query) = 3
    /\ \E i, j \in DOMAIN result.body.matches :
           /\ result.body.matches[i].relevance_score = 667
           /\ result.body.matches[j].relevance_score = 1000

\* no three consecutive characters of the query are all non-whitespace
OnlyShortTokens(query) ==
    \A i \in 1..(Len(query) - 2) :
        IsSpace(query[i]) \/ IsSpace(query[i + 1]) \/ IsSpace(query[i + 2])

\* C2: a search whose query has only tokens of length <= 2 returns no
\* matches and total 0 without giving any query to the executor, and does
\* not fail.
C2_ShortTokensShortCircuit ==
    (call.op = "search_messages" /\ OnlyShortTokens(call.query)) =>
        /\ result.kind = "return"
        /\ result.body.matches = <<>>
        /\ result.body.total_matches = 0
        /\ executed = <<>>

\* a query of two 2-character tokens over a warehouse holding a text that
\* contains the token
C2_Witness ==
    /\ call.op = "search_messages"
    /\ call.query = <<"a", "b", " ", "a", "b">>
    /\ \E i \in DOMAIN messages :
           /\ messages[i].message_text # NULL
           /\ Contains(Val(messages[i].message_text), <<"a", "b">>)
    /\ result.kind = "return"
    /\ executed = <<>>

\* C9: for page >= 1, page_size >= 1 and the total the count query gave,
\* total_pages is the ceiling of total_items / page_size (0 for 0 items),
\* has_next = (page < total_pages), has_previous = (page > 1), and both
\* queries get offset (page - 1) * page_size and limit page_size.
C9_Pagination ==
    IsSearchReturn =>
        LET p  == call.page
            ps == call.page_size
            pg == result.body.pagination
            n  == result.body.total_matches
        IN  /\ pg.total_items = n
            /\ pg.total_pages >= 0
            /\ pg.total_pages * ps >= n
            /\ (pg.total_pages - 1) * ps < n
            /\ pg.has_next = (p < pg.total_pages)
            /\ pg.has_previous = (p > 1)
            /\ executed # <<>>
            /\ \A i \in DOMAIN executed :
                   /\ executed[i].offset = (p - 1) * ps
                   /\ executed[i].limit = ps

\* the last page of 3 items in pages of 2
C9_Witness ==
    /\ IsSearchReturn
    /\ call.page = 2 /\ call.page_size = 2
    /\ result.body.pagination.total_items = 3
    /\ result.body.pagination.total_pages = 2
    /\ ~result.body.pagination.has_next
    /\ result.body.pagination.has_previous
    /\ Len(result.body.matches) = 1

IsTopProductsReturn == call.op = "get_top_products" /\ result.kind = "return"

\* for every vocabulary token, the number of its occurrences in the
\* qualifying rows of the window of the call
Occurrences ==
    LET pm == product_mentions(messages, Today - call.days_back)
    IN  [ n \in MedicalVocabulary |->
              Cardinality({ r \in pm : r.potential_product = n }) ]

\* C3: a vocabulary product with exactly 1 mention in the window is never
\* returned; one with 2 mentions is returned when the limit leaves room for
\* all products with at least 2; and a returned product comes before every
\* returned product with fewer mentions (so after every one with more), no
\* product being cut by the limit in favour of one with fewer mentions.
C3_SinglesOutPairsInOrdered ==
    IsTopProductsReturn =>
        LET out == result.body.products
            occ == Occurrences
            names == [i \in DOMAIN out |-> Lower(out[i].product_name)]
            returned == Range(names)
            atLeastTwo == { n \in MedicalVocabulary : occ[n] >= 2 }
        IN  /\ returned \subseteq MedicalVocabulary
            /\ \A n \in MedicalVocabulary : occ[n] = 1 => n \notin returned
            /\ \A n \in MedicalVocabulary :
                   (occ[n] = 2 /\ Cardinality(atLeastTwo) <= call.limit)
                       => n \in returned
            /\ \A i, j \in DOMAIN out : occ[names[i]] > occ[names[j]] => i < j
            /\ \A i \in DOMAIN out : \A n \in MedicalVocabulary :
                   occ[n] > occ[names[i]] => n \in returned

\* aspirin 3 times, insulin twice, codeine once: aspirin then insulin
C3_Witness ==
    /\ IsTopProductsReturn
    /\ Occurrences[<<"a", "s", "p", "i", "r", "i", "n">>] = 3
    /\ Occurrences[<<"i", "n", "s", "u", "l", "i", "n">>] = 2
    /\ Occurrences[<<"c", "o", "d", "e", "i", "n", "e">>] = 1
    /\ Len(result.body.products) = 2
    /\ result.body.products[1].product_name = <<"A", "s", "p", "i", "r", "i", "n">>
    /\ result.body.products[2].product_name = <<"I", "n", "s", "u", "l", "i", "n">>

\* C4: the mention_count of every returned product is the number of
\* occurrences of its token in the qualifying rows of the window, each
\* occurrence counted once.
C4_MentionCountIsOccurrences ==
    IsTopProductsReturn =>
        \A i \in DOMAIN result.body.products :
            result.body.products[i].mention_count
                = Occurrences[Lower(result.body.products[i].product_name)]

\* the channel of the call is in the channel dimension and has no message
\* inside the window of the call
ChannelIdleInWindow ==
    /\ call.op = "get_channel_activity"
    /\ NormalizeChannel(call.channel_name) \in dim_channels
    /\ \A i \in DOMAIN messages :
           messages[i].channel = NormalizeChannel(call.channel_name)
               => messages[i].message_date < Today - call.days_back

\* C5: channel activity for an existing channel with no message in the
\* window returns, with avg_daily_posts and media_percentage both 0.
C5_IdleChannelReturnsZeros ==
    ChannelIdleInWindow =>
        /\ result.kind = "return"
        /\ result.body.summary_stats.avg_daily_posts = 0
        /\ result.body.summary_stats.media_percentage = 0

IsTrendsRun == call.op = "get_daily_trends" /\ locals.trends # NULL

\* sum of the first h values and of the remaining ones
HeadSum(v, h) == SumSeq([k \in 1..h |-> v[k]])

TailSum(v, h) == SumSeq([k \in 1..(Len(v) - h) |-> v[h + k]])

\* C6: for a series of n >= 2 points, split after the first floor(n/2)
\* points, the direction computed is "increasing" when the mean of the rest
\* exceeds the mean of the first part by more than 5%, "decreasing" when it
\* is below 95% of it, and "stable" otherwise; [10,10,10,20,20,20] is
\* increasing and [10,10,10,10,10,10] is stable.
C6_TrendClassification ==
    /\ TrendDirection(<<10, 10, 10, 20, 20, 20>>) = "increasing"
    /\ TrendDirection(<<10, 10, 10, 10, 10, 10>>) = "stable"
    /\ (IsTrendsRun /\ Len(Val(locals.trends)) >= 2) =>
         LET v  == Val(locals.trends)
             h  == Len(v) \div 2
             n2 == Len(v) - h
             s1 == HeadSum(v, h)
             s2 == TailSum(v, h)
         IN  locals.trend_direction =
               Some(IF 100 * s2 * h > 105 * s1 * n2 THEN "increasing"
                    ELSE IF 100 * s2 * h < 95 * s1 * n2 THEN "decreasing"
                    ELSE "stable")

\* an odd-length series whose middle point decides the direction
C6_Witness ==
    /\ IsTrendsRun
    /\ locals.trends = Some(<<20000, 0, 21000>>)
    /\ locals.trend_direction = Some("decreasing")
    /\ locals.trend_analysis # NULL

\* C7: the trend analysis reports growth_rate 0 whenever the direction is
\* "stable" or "insufficient_data".
C7_ZeroGrowthReported ==
    (/\ IsTrendsRun
     /\ locals.trend_analysis # NULL
     /\ Val(locals.trend_analysis).trend_direction \in {"stable", "insufficient_data"})
       => Val(locals.trend_analysis).growth_rate = Some(0)

C11_HealthNeverRaises ==
    call.op = "get_health_check" =>
        /\ result.kind = "return"
        /\ result.status_code = 200
        /\ "raised" \notin DOMAIN locals
        /\ outage = 1 =>
             /\ result.body.database_status = "error"
             /\ result.body.total_messages = 0
             /\ result.body.total_detections = 0

\* the query failed over tables that hold rows
C11_Witness ==
    /\ call.op = "get_health_check"
    /\ outage = 1
    /\ executed = << [query |-> "health_query"] >>
    /\ messages # <<>>
    /\ detections # <<>>
    /\ result.kind = "return"
    /\ result.body.database_status = "error"

\* C12: the channel-comparison endpoint answers 404, not 500, when the
\* comparison query returns no channel rows for the window.
C12_EmptyComparisonIs404 ==
    (/\ call.op = "get_channel_comparison"
     /\ outage = 0
     /\ ComparedChannels(messages, Today - call.days_back) = {})
       => /\ result.kind = "HTTPException"
          /\ result.status_code = 404

\* the channel-dimension lookup ran and returned no row
ChannelLookupEmpty ==
    /\ outage # 1
    /\ NormalizeChannel(call.channel_name) \notin dim_channels

\* C13: the channel-activity endpoint answers 404 exactly when the
\* channel-dimension lookup for the normalized name returns no row; every
\* other failure inside the operation answers 500.
C13_NotFoundIsTheOnly404 ==
    call.op = "get_channel_activity" =>
        /\ (result.kind = "HTTPException" /\ result.status_code = 404)
               <=> ChannelLookupEmpty
        /\ (result.kind = "HTTPException" /\ ~ChannelLookupEmpty)
               => result.status_code = 500

\* C14: a metric name outside the four recognized ones fails before any
\* query is submitted and the endpoint answers 400; a recognized metric
\* never yields 400.
C14_OnlyUnknownMetricIs400 ==
    call.op = "get_daily_trends" =>
        /\ call.metric \notin metric_calculations
               => /\ executed = <<>>
                  /\ result.kind = "HTTPException"
                  /\ result.status_code = 400
        /\ call.metric \in metric_calculations
               => ~(result.kind = "HTTPException" /\ result.status_code = 400)

AnalyticalOperations ==
    { "get_top_products", "get_channel_activity", "search_messages",
      "get_channel_comparison", "get_daily_trends", "get_object_detection_summary" }

\* C19: every successful payload an analytical endpoint returns carries the
\* query metadata record the operation got from the metadata annotator.
C19_PayloadCarriesMetadata ==
    (call.op \in AnalyticalOperations /\ result.kind = "return")
        => /\ "metadata" \in DOMAIN result.body
           /\ result.body.metadata = locals.metadata

\* the rows of the warehouse the search keeps: the WHERE conditions hold and
\* matched / k >= min_relevance
KeptRows ==
    LET terms == search_terms(call.query)
    IN  { i \in DOMAIN messages :
            /\ where_conditions(messages[i], terms, call.filters)
            /\ MatchedCount(messages[i], terms) * RelevanceScale
                   >= call.min_relevance * Len(terms) }

\* row a comes strictly before row b: higher score, or equal score and a
\* later post timestamp
RanksBefore(a, b) ==
    LET terms == search_terms(call.query)
        ma    == MatchedCount(messages[a], terms)
        mb    == MatchedCount(messages[b], terms)
    IN  \/ ma > mb
        \/ ma = mb /\ messages[a].message_date > messages[b].message_date

\* the returned matches are in ranking order and are the window
\* [offset, offset + limit) of the kept rows in that order: the match at
\* position i of the page has at most offset + i - 1 kept rows strictly
\* before it and at least offset + i kept rows not after it
PageIsWindowOfRanking ==
    LET ms     == result.body.matches
        limit  == call.page_size
        offset == (call.page - 1) * call.page_size
    IN  /\ Len(ms) = Min(limit, Max(0, Cardinality(KeptRows) - offset))
        /\ \A i \in DOMAIN ms : ms[i].message_id \in KeptRows
        /\ \A i, j \in DOMAIN ms :
               i < j => /\ ms[i].message_id # ms[j].message_id
                        /\ ~RanksBefore(ms[j].message_id, ms[i].message_id)
        /\ \A i \in DOMAIN ms :
               /\ Cardinality({x \in KeptRows : RanksBefore(x, ms[i].message_id)})
                      <= offset + i - 1
               /\ Cardinality({x \in KeptRows : ~RanksBefore(ms[i].message_id, x)})
                      >= offset + i

\* C20 as stated: every returned match has relevance_score >= min_relevance,
\* the matches are ordered by relevance_score descending then post timestamp
\* descending, and the page is the window [offset, offset + limit) of that
\* ordering.
C20_ReturnedScoreAtLeastThreshold ==
    IsSearchReturn =>
        /\ \A i \in DOMAIN result.body.matches :
               result.body.matches[i].relevance_score * (RelevanceScale \div 1000)
                   >= call.min_relevance
        /\ PageIsWindowOfRanking

\* C20 amended: every returned match is a row whose score before rounding,
\* matched / k, is >= min_relevance (its reported score, rounded to 3
\* decimals, is within half a thousandth of that); the matches are ordered by
\* score descending then post timestamp descending, and the page is the
\* window [offset, offset + limit) of that ordering of the kept rows.
C20_FilteredRankedWindow ==
    IsSearchReturn =>
        /\ \A i \in DOMAIN result.body.matches :
               LET id == result.body.matches[i].message_id
                   k  == SurvivingTermCount(call.query)
                   m  == MatchedCount(messages[id], search_terms(call.query))
               IN  /\ m * RelevanceScale >= call.min_relevance * k
                   /\ 2 * Abs(result.body.matches[i].relevance_score * k - m * 1000)
                          <= k
        /\ PageIsWindowOfRanking

\* the second page of size 1: the threshold dropped a row that matched a
\* term, and the row returned follows a kept row of equal score and later
\* post timestamp
C20_Witness ==
    /\ IsSearchReturn
    /\ call.page = 2 /\ call.page_size = 1
    /\ Len(result.body.matches) = 1
    /\ \E i \in DOMAIN messages :
           /\ where_conditions(messages[i], search_terms(call.query), call.filters)
           /\ i \notin KeptRows
    /\ \E x \in KeptRows :
           LET id == result.body.matches[1].message_id
           IN  /\ result.body.matches[1].relevance_score
                      = RelevanceRounded([num |-> MatchedCount(messages[x],
                                                     search_terms(call.query)),
                                          den |-> SurvivingTermCount(call.query)])
               /\ messages[x].message_date > messages[id].message_date

Running == { t \in Threads : requests[t].phase # "idle" }

Holding == { t \in Threads : requests[t].phase = "holding" }

Waiting == { t \in Threads : requests[t].phase = "waiting" }

\* C15: an invocation acquires one warehouse connection for its whole
\* lifetime: however many queries it has given the executor, it has checked
\* out at most one connection, and from its first query to its last it holds
\* that connection.
C15_OneConnectionPerInvocation ==
    \A t \in Running :
        /\ requests[t].connects <= 1
        /\ (requests[t].done >= 1 /\ requests[t].phase # "finished")
               => requests[t].phase = "holding"

\* C16: the connections checked out are exactly those of the other users of
\* the engine and of the threads inside an executor call, so a request that
\* has finished (returned or failed) or is between two executor calls holds
\* none; once every request has finished and the other users have closed
\* theirs, none is checked out.
C16_ReleasedUnconditionally ==
    /\ pool.checkedout = pool.others + Cardinality(Holding)
    /\ (pool.others = 0 /\ \A t \in Running : requests[t].phase = "finished")
           => pool.checkedout = 0

\* two requests that ran side by side have finished, one by an executor
\* failure after a query of its own was answered, the other by returning
C16_Witness ==
    /\ pool.checkedout = 0
    /\ \E t, u \in Threads :
           /\ requests[t].phase = "finished" /\ requests[u].phase = "finished"
           /\ requests[t].failure = QueryFailure /\ requests[t].done >= 1
           /\ requests[u].outcome = "return" /\ requests[u].connects >= 2

C18_NoRetryFailurePropagates ==
    \A t \in Running :
        LET req == requests[t]
        IN  /\ Len(req.submitted) <= Len(req.plan)
            /\ req.submitted = SubSeq(req.plan, 1, Len(req.submitted))
            /\ Len(req.submitted) \in {req.done, req.done + 1}
            /\ req.failure # "none" =>
                   /\ req.phase = "finished"
                   /\ Len(req.submitted) = req.done + 1
                   /\ req.outcome = IF req.op = "get_health_check" THEN "return"
                                     ELSE req.failure
            /\ (req.phase = "finished" /\ req.failure = "none") =>
                   req.submitted = req.plan

\* the second query of a channel-activity invocation failed, and a health
\* check whose query failed returned
C18_Witness ==
    \E t, u \in Threads :
        /\ requests[t].phase = "finished" /\ requests[u].phase = "finished"
        /\ requests[t].op = "get_channel_activity"
        /\ requests[t].failure = QueryFailure
        /\ requests[t].done = 1
        /\ requests[t].outcome = QueryFailure
        /\ requests[u].op = "get_health_check"
        /\ requests[u].failure = QueryFailure
        /\ requests[u].outcome = "return"

\* C21: total_count is the number of warehouse rows that satisfy the filter
\* predicate and the relevance threshold, whatever limit and offset are, and
\* the page has min(limit, max(0, total_count - offset)) rows.
C21_TotalCountIgnoresWindow ==
    (IsSearchReturn /\ search_terms(call.query) # <<>>) =>
        LET limit  == call.page_size
            offset == (call.page - 1) * call.page_size
            total  == result.body.total_matches
        IN  /\ total = Cardinality(KeptRows)
            /\ Len(result.body.matches) = Min(limit, Max(0, total - offset))

\* the second page of size 1 of 2 kept rows, a third row having matched a
\* term below the threshold
C21_Witness ==
    /\ IsSearchReturn
    /\ call.page = 2 /\ call.page_size = 1 /\ call.min_relevance > 0
    /\ result.body.total_matches = 2
    /\ Len(result.body.matches) = 1
    /\ Len(messages) = 3
    /\ \A i \in DOMAIN messages :
           where_conditions(messages[i], search_terms(call.query), call.filters)

\* what the claim lets the query text depend on: the number of surviving
\* terms, the number of channels, which optional filters are present and the
\* sentiment bucket
QueryShape(terms, f) ==
    [ terms     |-> Len(terms),
      channels  |-> IF f.channels = NULL THEN 0 ELSE Len(Val(f.channels)),
      date_from |-> f.date_from # NULL,
      date_to   |-> f.date_to # NULL,
      has_media |-> f.has_media # NULL,
      sentiment |-> IF f.sentiment = NULL THEN "none"
                    ELSE SentimentCategory(Val(f.sentiment)) ]

IsSearchExecuted == call.op = "search_messages" /\ Len(executed) = 2

\* C22: the texts of the search query and of the count query carry no value
\* of the caller, and every other search call of the same shape (same number
\* of terms and channels, same filters present, same sentiment bucket) has
\* the same two texts, whatever its terms, channel names, dates and media
\* flag are.
C22_QueryTextDependsOnShapeOnly ==
    IsSearchExecuted =>
        /\ \A n \in DOMAIN executed :
               \A g \in DOMAIN executed[n].text.where :
                   \A c \in DOMAIN executed[n].text.where[g] :
                       executed[n].text.where[g][c].lit = <<>>
        /\ LET shape == QueryShape(search_terms(call.query), call.filters)
           IN  \A q \in FilterQueries :
                   LET terms == search_terms(q)
                   IN  \A f \in FilterInputs :
                           QueryShape(terms, f) = shape =>
                               /\ query_text("search", terms, f) = executed[1].text
                               /\ query_text("count", terms, f) = executed[2].text

\* a search for "abc" in channel a with dates, media flag and the neutral
\* bucket has the query text of a search for "cde" in channel @b with the
\* opposite media flag
C22_Witness ==
    /\ IsSearchExecuted
    /\ call.query = <<"a", "b", "c">>
    /\ call.filters.channels = Some(<< <<"a">> >>)
    /\ call.filters.date_from # NULL /\ call.filters.date_to # NULL
    /\ call.filters.has_media = Some(TRUE)
    /\ call.filters.sentiment = Some("neutral")
    /\ executed[1].text =
           query_text("search", search_terms(<<"c", "d", "e">>),
                      [call.filters EXCEPT !.channels = Some(<< <<"@", "b">> >>),
                                           !.has_media = Some(FALSE)])

\* the conditions of the search query's WHERE, by their SQL
WhereSql ==
    { executed[1].text.where[g][1].sql : g \in DOMAIN executed[1].text.where }

\* the rows a search must count: text present, some term contained, and
\* the condition of each supplied filter
RowsWanted ==
    LET terms == search_terms(call.query)
        f     == call.filters
    IN  { i \in DOMAIN messages :
            /\ messages[i].message_text # NULL
            /\ \E n \in DOMAIN terms : TermLike(messages[i], terms[n])
            /\ f.channels # NULL =>
                   \E n \in DOMAIN Val(f.channels) :
                       messages[i].channel = NormalizeChannel(Val(f.channels)[n])
            /\ f.date_from # NULL => messages[i].message_date >= Val(f.date_from)
            /\ f.date_to # NULL => messages[i].message_date <= Val(f.date_to)
            /\ f.has_media # NULL => messages[i].has_media = Val(f.has_media)
            /\ f.sentiment # NULL =>
                   messages[i].engagement_category
                       = SentimentCategory(Val(f.sentiment)) }

\* C23: the WHERE of a search always has the non-null-text condition and the
\* OR of one clause per term, and has the condition of each optional filter
\* exactly when that filter is supplied, each independently of the others;
\* the rows counted are those that satisfy the supplied filters only, a
\* supplied has_media = false included.
C23_FilterComposition ==
    IsSearchExecuted =>
        LET f     == call.filters
            where == executed[1].text.where
        IN  /\ where[1] = <<Clause("message_text IS NOT NULL", -1)>>
            /\ Len(where[2]) = Len(search_terms(call.query))
            /\ \A n \in DOMAIN where[2] :
                   where[2][n].sql = "LOWER(message_text) LIKE :term_"
            /\ ("channel = :channel_" \in WhereSql) = (f.channels # NULL)
            /\ ("message_date >= :date_from" \in WhereSql) = (f.date_from # NULL)
            /\ ("message_date <= :date_to" \in WhereSql) = (f.date_to # NULL)
            /\ ("has_media = :has_media" \in WhereSql) = (f.has_media # NULL)
            /\ (\E b \in {"high", "medium", "low"} :
                    ("engagement_category = '" \o b \o "'") \in WhereSql)
                   = (f.sentiment # NULL)
            /\ Len(where) = 2 + Cardinality({x \in DOMAIN f : f[x] # NULL})
            /\ executed[2].text.where = where
            /\ result.kind = "return" =>
                   result.body.total_matches = Cardinality(RowsWanted)

\* only has_media = false is supplied, and it keeps one of two rows that
\* contain the term
C23_Witness ==
    /\ IsSearchExecuted
    /\ result.kind = "return"
    /\ call.filters = [NoFilters EXCEPT !.has_media = Some(FALSE)]
    /\ Len(executed[1].text.where) = 3
    /\ result.body.total_matches = 1
    /\ Len(messages) = 2
    /\ \A i \in DOMAIN messages :
           TermLike(messages[i], search_terms(call.query)[1])

IsComparisonRun == call.op = "get_channel_comparison" /\ outage = 0

\* 0.3 x avg_engagement + 0.3 x media_ratio + 0.2 x (n / days) / 10
\* + 0.2 x medical_ratio over the rows of one channel in the window, with a
\* true quotient n / days, in thousandths
WeightedScore(channel, days_back) ==
    LET ids     == { i \in DOMAIN messages :
                       /\ messages[i].channel = channel
                       /\ messages[i].message_date >= Today - days_back }
        n       == Cardinality(ids)
        engage  == SumSeq([k \in 1..n |-> messages[SeqOfSet(ids)[k]].engagement_score])
        media   == Cardinality({i \in ids : messages[i].has_media})
        medical == Cardinality({i \in ids : IsMedicalContent(messages[i])})
    IN  RoundHalfUp(1000 * ( 10 * days_back * (3 * engage + 3 * media + 2 * medical)
                             + 2 * n * n ),
                    100 * n * days_back)

\* C24: every record the comparison returns has the composite score
\* 0.3 x avg_engagement + 0.3 x media_ratio + 0.2 x (total_messages /
\* window_days) / 10 + 0.2 x medical_content_ratio, the quotient
\* total_messages / window_days not truncated.
C24_FrequencyIsTrueQuotient ==
    (IsComparisonRun /\ result.kind = "return") =>
        \A k \in DOMAIN result.body.channels :
            result.body.channels[k].engagement_score
                = WeightedScore(result.body.channels[k].channel_name, call.days_back)

\* C25: when some channel has a message in the window the comparison
\* returns, with one record for each such channel, every engagement_score
\* >= 0 and the records in descending order of engagement_score.
C25_ComparisonNeverFailsOnBounds ==
    (IsComparisonRun /\ ComparedChannels(messages, Today - call.days_back) # {}) =>
        /\ result.kind = "return"
        /\ { result.body.channels[k].channel_name : k \in DOMAIN result.body.channels }
               = { messages[i].channel :
                     i \in { j \in DOMAIN messages :
                               messages[j].message_date >= Today - call.days_back } }
        /\ Len(result.body.channels)
               = Cardinality(ComparedChannels(messages, Today - call.days_back))
        /\ \A k \in DOMAIN result.body.channels :
               result.body.channels[k].engagement_score >= 0
        /\ \A j, k \in DOMAIN result.body.channels :
               j < k => result.body.channels[j].engagement_score
                           >= result.body.channels[k].engagement_score

\* a name with the leading '@' as is, any other name with '@' put in front
Marked(x) == IF x # <<>> /\ x[1] = "@" THEN x ELSE <<"@">> \o x

\* the channel names of the call in progress
NamesOfCall ==
    IF call.op = "get_channel_activity" THEN {call.channel_name}
    ELSE IF call.op = "search_messages" /\ call.filters.channels # NULL
    THEN Range(Val(call.filters.channels))
    ELSE IF call.op = "get_daily_trends" /\ call.channel # NULL
    THEN {Val(call.channel)}
    ELSE {}

RowsOfChannels(names) ==
    { i \in DOMAIN messages : \E x \in names : messages[i].channel = Marked(x) }

\* C26: normalizing a name once or twice gives the same, '@'-prefixed name
\* (unchanged if it had the '@'), and channel activity, the search channel
\* filter and the trends channel filter all select by that name: the
\* activity is that of the channel Marked(x), found exactly when Marked(x)
\* is a known channel; the search returns the rows of the channels
\* Marked(x); the trend counts the rows of the channel Marked(x).
C26_NormalizationIdempotentEverywhere ==
    /\ \A x \in NamesOfCall :
           /\ NormalizeChannel(x) = Marked(x)
           /\ NormalizeChannel(NormalizeChannel(x)) = NormalizeChannel(x)
    /\ call.op = "get_channel_activity" =>
           /\ (result.kind = "HTTPException" /\ result.status_code = 404)
                  <=> Marked(call.channel_name) \notin dim_channels
           /\ result.kind = "return" =>
                  /\ result.body.channel_info.channel_name = Marked(call.channel_name)
                  /\ result.body.channel_info.total_messages
                         = Cardinality(RowsOfChannels(NamesOfCall))
    /\ (IsSearchReturn /\ call.filters.channels # NULL) =>
           /\ result.body.total_matches = Cardinality(RowsOfChannels(NamesOfCall))
           /\ { result.body.matches[i].message_id : i \in DOMAIN result.body.matches }
                  = RowsOfChannels(NamesOfCall)
    /\ (call.op = "get_daily_trends" /\ call.channel # NULL) =>
           SumSeq(Val(locals.trends)) = 1000 * Cardinality(RowsOfChannels(NamesOfCall))

\* a search in the channels "a" and "@b" returned a row of @a and a row of @b
C26_Witness ==
    /\ IsSearchReturn
    /\ call.filters.channels = Some(<< <<"a">>, <<"@", "b">> >>)
    /\ { result.body.matches[i].channel : i \in DOMAIN result.body.matches }
           = { <<"@", "a">>, <<"@", "b">> }

\* C27: top products returns at most limit products, in descending order of
\* mention_count, products of equal mention_count in descending order of
\* last_mentioned, and every avg_sentiment is absent or within [-1, 1].
C27_TopProductsCappedOrderedClamped ==
    IsTopProductsReturn =>
        LET out == result.body.products
        IN  /\ Len(out) <= call.limit
            /\ \A i, j \in DOMAIN out :
                   i < j => \/ out[i].mention_count > out[j].mention_count
                            \/ /\ out[i].mention_count = out[j].mention_count
                               /\ out[i].last_mentioned >= out[j].last_mentioned
            /\ \A i \in DOMAIN out :
                   \/ out[i].avg_sentiment = NULL
                   \/ /\ Val(out[i].avg_sentiment) >= -1000
                      /\ Val(out[i].avg_sentiment) <= 1000

\* two products with the same mention count: the one mentioned last comes
\* first, its average signal 2.5 clamped to 1; the other's average is 0
\* and absent
C27_Witness ==
    /\ IsTopProductsReturn
    /\ Len(result.body.products) = 2
    /\ result.body.products[1].mention_count = result.body.products[2].mention_count
    /\ result.body.products[1].last_mentioned > result.body.products[2].last_mentioned
    /\ result.body.products[1].avg_sentiment = Some(1000)
    /\ result.body.products[2].avg_sentiment = NULL

\* the lower-cased first 200 characters of the text of warehouse row id
ReturnedPrefix(id) ==
    LET text == Val(messages[id].message_text)
    IN  Lower(SubSeq(text, 1, Min(200, Len(text))))

\* for every returned match: matched_terms holds surviving terms only, and a
\* term is in it exactly when the first 200 characters of the text, lower-
\* cased, contain it, so a term found only further on is counted in the
\* score and absent from matched_terms
MatchedTermsFromPrefix ==
    \A i \in DOMAIN result.body.matches :
        LET match == result.body.matches[i]
            terms == search_terms(call.query)
        IN  /\ Range(match.matched_terms) \subseteq Range(terms)
            /\ match.matched_terms
                   = SelectSeq(terms, LAMBDA term :
                         Contains(ReturnedPrefix(match.message_id), term))
            /\ \A n \in DOMAIN terms :
                   (/\ Contains(Lower(Val(messages[match.message_id].message_text)),
                                terms[n])
                    /\ ~Contains(ReturnedPrefix(match.message_id), terms[n]))
                       => /\ terms[n] \notin Range(match.matched_terms)
                          /\ MatchedCount(messages[match.message_id], terms)
                                 > Len(match.matched_terms)

LiteralTerms(id, terms) ==
    {n \in DOMAIN terms : /\ messages[id].message_text # NULL
                          /\ Contains(Lower(Val(messages[id].message_text)), terms[n])}

\* C29 as stated: the per-term predicate of filtering and scoring holds for
\* a message exactly when its lower-cased text contains the term literally,
\* also for terms with % or _: the rows counted are those that contain some
\* term literally, and each reported score is the share of terms contained
\* literally.
C29_TermPredicateIsLiteralContainment ==
    IsSearchReturn =>
        LET terms == search_terms(call.query)
        IN  /\ result.body.total_matches
                   = Cardinality({id \in DOMAIN messages : LiteralTerms(id, terms) # {}})
            /\ \A i \in DOMAIN result.body.matches :
                   LET match == result.body.matches[i]
                   IN  match.relevance_score
                           = RelevanceRounded([num |-> Cardinality(LiteralTerms(match.message_id, terms)),
                                               den |-> Len(terms)])


====
